---- MODULE Spec2Model ----
(***************************************************************************)
(* Warehouse manager: orders and the inventory ledger (order_service,      *)
(* product_service, stock_request_service), the carrier webhook            *)
(* (api/webhooks.py) and the picking engine (picking_service).             *)
(*                                                                         *)
(* The database is the committed state.  A request works on a SQLAlchemy   *)
(* session: a working copy W of the rows that becomes the committed state  *)
(* at db.commit() and is discarded when get_db closes the session.         *)
(***************************************************************************)
EXTENDS Integers, Sequences, FiniteSets, TLC

(* ------------------------------ bounds -------------------------------- *)
MaxOrders == 2          \* order rows ever flushed
MaxHookOrders == 1      \* orders followed through label purchase and carrier events
MaxLedger == 4          \* ledger entries written after the catalog set-up
MaxQty == 3             \* largest on-hand quantity explored
MaxManual == 1          \* manual status updates explored
MaxHist == 5            \* status_history entries per order
MaxBatches == 2         \* picking lists ever created
MaxTime == 4            \* clock values handed out
MaxQuotes == 2          \* quotes in a list given to _find_rate
InitStock == 2          \* stock of each row after the catalog set-up

(* ------------------------------ catalog ------------------------------- *)
\* Product "p1" has no variants; product "p2" owns variant "v1".
Products == {"p1", "p2"}
Variants == {"v1"}
VariantProduct == [v \in Variants |-> "p2"]
Rows == Products \cup Variants
\* Amounts of money are counted in cents.
price == [p \in Products |-> IF p = "p1" THEN 300 ELSE 100]
price_override == [v \in Variants |-> 200]
PROCESSING_FEE_PER_ITEM == 50

OrderStatus ==
  {"pending", "confirmed", "processing", "packing", "packed", "label_purchased",
   "drop_off", "shipped", "in_transit", "delivered", "cancelled"}

VARIABLES
  quantity,        \* Product.quantity / Variant.quantity, by row id
  ledger,          \* inventory_logs, in insertion order
  orders,          \* committed order rows, by order id
  orderSeq,        \* number of order ids handed out so far
  stock_requests,  \* committed stock requests, by id
  picking_lists,   \* committed PickingList rows, by id
  pick_items,      \* committed PickItem rows, by qr_code
  plSeq,           \* number of picking-list ids handed out so far
  now,             \* the clock read by datetime.now()
  sess,            \* the open session of a running import_orders, or NoSession
  failedAttempts,  \* ids of the order rows flushed by a create_order that raised
  reqs,            \* the requests in flight that run as separate read and write steps
  manualCount,     \* manual status updates made so far
  carrier,         \* the carrier's side: the shipments bought for each order
  rateCall,        \* the call of _find_rate under study: its arguments and its result
  lastOp           \* the last request served and its outcome

invVars == <<quantity, ledger>>
ordVars == <<orders, orderSeq>>
pickVars == <<picking_lists, pick_items, plSeq, now>>
auxVars == <<sess, failedAttempts, reqs>>
extVars == <<carrier, rateCall>>
vars == <<quantity, ledger, orders, orderSeq, stock_requests, picking_lists, pick_items,
          plSeq, now, sess, failedAttempts, reqs, manualCount, carrier, rateCall, lastOp>>

NoSession == [open |-> FALSE, W |-> <<>>, todo |-> <<>>]

\* The carrier's record of an order: the shipments bought for it so far, and
\* whether the last one is still unrefunded.
NoShipment == [purchases |-> 0, unrefunded |-> FALSE]

None == [none |-> TRUE]
NoRateCall == [called |-> FALSE, rates |-> <<>>, carrier |-> <<>>, service |-> <<>>,
               result |-> None]

\* op: the request; ok: whether it succeeded; order, pl, qr, ids: what it named;
\* arg: its input or its message.  (pre is not recorded.)
Op(op, ok, order, pl, qr, ids, pre, arg) ==
  [op |-> op, ok |-> ok, order |-> order, pl |-> pl, qr |-> qr, ids |-> ids, arg |-> arg]
OrderOp(op, ok, order, pre, arg) == Op(op, ok, order, 0, <<>>, {}, pre, arg)

\* sum(...) over the first n values of f
RECURSIVE SumSeq(_, _)
SumSeq(f, n) == IF n = 0 THEN 0 ELSE f[n] + SumSeq(f, n - 1)

(* --------------------------- order_service ---------------------------- *)
HistoryEntry(status, note) == [status |-> status, note |-> note]

_add_status_history(order, status, note) ==
  [order EXCEPT !.status_history = Append(@, HistoryEntry(status, note))]

LogEntry(product_id, change, reason, reference_id, balance_after) ==
  [product_id |-> product_id, change |-> change, reason |-> reason,
   reference_id |-> reference_id, balance_after |-> balance_after]

\* Order(...) followed by db.add(order); db.flush(): the row exists in the
\* session's transaction with the column defaults.
NewOrder ==
  [status |-> "pending", items |-> <<>>, status_history |-> <<>>,
   easypost_shipment_id |-> 0, tracking_number |-> 0, tracking_status |-> "",
   label_url |-> "", tracking_url |-> "",
   processing_fee |-> 0, shipping_cost |-> 0, total_price |-> 0]

\* The row a line reserves from: the variant when variant_id is set.
LineRow(item) == IF item.variant_id # "" THEN item.variant_id ELSE item.product_id

\* One iteration of the loop over data.items; raises (ok = FALSE) on an
\* unknown product, an unknown variant or insufficient stock.
LineFails(W, item) ==
  \/ item.product_id \notin Products
  \/ item.product_id \notin DOMAIN W.quantity
  \/ /\ item.variant_id # ""
     /\ ~(/\ item.variant_id \in Variants
          /\ item.variant_id \in DOMAIN W.quantity
          /\ VariantProduct[item.variant_id] = item.product_id)
  \/ W.quantity[LineRow(item)] < item.quantity

\* Determine price: variant override > product price
UnitPrice(item) ==
  IF item.variant_id # "" /\ price_override[item.variant_id] > 0
    THEN price_override[item.variant_id]
    ELSE price[item.product_id]

OrderItem(item) ==
  [product_id |-> item.product_id, variant_id |-> item.variant_id,
   quantity |-> item.quantity, unit_price |-> UnitPrice(item)]

ReserveLine(W, id, item) ==
  LET row == LineRow(item)
      q == W.quantity[row] - item.quantity
  IN [W EXCEPT
        !.orders[id].items = Append(@, OrderItem(item)),
        !.quantity[row] = q,
        !.ledger = Append(@, LogEntry(item.product_id, -item.quantity, "order", id, q))]

RECURSIVE create_order_lines(_, _, _, _)
create_order_lines(W, id, items, i) ==
  IF i > Len(items) THEN [ok |-> TRUE, W |-> W]
  ELSE IF LineFails(W, items[i]) THEN [ok |-> FALSE, W |-> W]
  ELSE create_order_lines(ReserveLine(W, id, items[i]), id, items, i + 1)

\* total_items += item_data.quantity
total_items(items) == SumSeq([i \in 1..Len(items) |-> items[i].quantity], Len(items))

\* create_order on the session state W.  On ok the caller's state is the
\* committed one (db.commit()); on failure W holds what the session still
\* carries: the flushed order row and the lines handled before the raise.
create_order(W, id, items) ==
  LET W0 == [W EXCEPT !.orders = [o \in DOMAIN W.orders \cup {id} |->
                                    IF o = id THEN NewOrder ELSE W.orders[o]]]
      r == create_order_lines(W0, id, items, 1)
  IN IF r.ok
       THEN [ok |-> TRUE,
             W |-> LET fee == total_items(r.W.orders[id].items) * PROCESSING_FEE_PER_ITEM
                   IN [r.W EXCEPT !.orders[id] =
                         _add_status_history(
                           [@ EXCEPT !.processing_fee = fee, !.total_price = fee],
                           "pending", "Order created")]]
       ELSE r

Committed == [quantity |-> quantity, ledger |-> ledger, orders |-> orders]

Commit(W) ==
  /\ quantity' = W.quantity
  /\ ledger' = W.ledger
  /\ orders' = W.orders

(* ------------------------------- inputs ------------------------------- *)
Line(p, v, q) == [product_id |-> p, variant_id |-> v, quantity |-> q]

\* Request bodies of POST /orders: OrderItemCreate.quantity is any int.
ApiLines ==
  {Line("p1", "", 2), Line("p2", "v1", 1), Line("p1", "", -1), Line("px", "", 1),
   Line("p1", "v1", 1)}
ApiItemLists == {<<l>> : l \in ApiLines} \cup {<<Line("p1", "", 1), Line("p2", "v1", 3)>>}

\* Everything but the call of _find_rate under study.
InitBase ==
  /\ quantity = [r \in Rows |-> IF r = "p2" THEN 0 ELSE InitStock]
  /\ ledger = <<LogEntry("p1", InitStock, "inbound", 0, InitStock)>>
  /\ orders = <<>>
  /\ orderSeq = 0
  /\ stock_requests = <<>>
  /\ picking_lists = <<>>
  /\ pick_items = <<>>
  /\ plSeq = 0
  /\ now = 1
  /\ sess = NoSession
  /\ failedAttempts = {}
  /\ reqs = [r \in {1, 2} |-> [pc |-> "idle", order_ids |-> {}, found |-> {}, pl |-> 0]]
  /\ manualCount = 0
  /\ carrier = [o \in 1..MaxOrders |-> NoShipment]
  /\ lastOp = OrderOp("init", TRUE, 0, "", "")

Init == InitBase /\ rateCall = NoRateCall

\* POST /orders: a failed create_order becomes a 400 and get_db closes the
\* session, which rolls the transaction back: the flushed row and its uuid are
\* gone, so the id is not used up.
CreateOrder(items) ==
  /\ ~sess.open
  /\ orderSeq < MaxOrders
  /\ Len(ledger) + Len(items) <= MaxLedger + 1
  /\ LET id == orderSeq + 1
         r == create_order(Committed, id, items)
     IN IF r.ok
          THEN /\ Commit(r.W)
               /\ orderSeq' = id
               /\ lastOp' = OrderOp("create_order", TRUE, id, "", "")
          ELSE /\ UNCHANGED <<quantity, ledger, orders, orderSeq>>
               /\ lastOp' = OrderOp("create_order", FALSE, 0, "", "")
  /\ UNCHANGED <<stock_requests, pickVars, auxVars, manualCount, extVars>>

\* The rows cancel_order restores, one line after the other.
RECURSIVE cancel_order_lines(_, _, _)
cancel_order_lines(W, id, i) ==
  IF i > Len(W.orders[id].items) THEN W
  ELSE LET item == W.orders[id].items[i]
           row == LineRow(item)
       IN cancel_order_lines(
            \* "if variant:" / "if product:": a row that is gone is skipped
            IF row \in DOMAIN W.quantity
              THEN [W EXCEPT !.quantity[row] = W.quantity[row] + item.quantity,
                             !.ledger = Append(@, LogEntry(item.product_id, item.quantity,
                                                            "order_cancelled", id,
                                                            W.quantity[row] + item.quantity))]
              ELSE W,
            id, i + 1)

CancelRefused(status) == status \in {"shipped", "in_transit", "delivered"}

cancel_order(W, id) ==
  LET W1 == cancel_order_lines(W, id, 1)
  IN [W1 EXCEPT !.orders[id] =
        _add_status_history([@ EXCEPT !.status = "cancelled"], "cancelled", "Order cancelled")]

\* POST /orders/{id}/cancel
CancelOrder(id) ==
  /\ ~sess.open
  /\ id \in DOMAIN orders
  /\ Len(ledger) + Len(orders[id].items) <= MaxLedger + 1
  /\ Len(orders[id].status_history) < MaxHist
  /\ IF CancelRefused(orders[id].status)
       THEN /\ UNCHANGED <<quantity, ledger, orders>>
            /\ lastOp' = OrderOp("cancel_order", FALSE, id, orders[id].status, "")
       ELSE /\ Commit(cancel_order(Committed, id))
            /\ lastOp' = OrderOp("cancel_order", TRUE, id, orders[id].status, "")
  /\ UNCHANGED <<orderSeq, stock_requests, pickVars, auxVars, manualCount, extVars>>

(* -------------------------- product_service --------------------------- *)
AdjustRefused_never(q, d) == FALSE

\* if new_qty < 0: raise ValueError("Insufficient stock ...")
AdjustRefused(q, d) == q + d < 0

\* The request on a row (arg) with data.quantity = delta.
AdjustOp(ok, row, d) ==
  [op |-> "adjust_inventory", ok |-> ok, order |-> 0, pl |-> 0, qr |-> <<>>, ids |-> {},
   arg |-> row, delta |-> d]

\* adjust_inventory (row a product) and adjust_variant_inventory (row a variant):
\* the ledger entry carries the owning product's id.
adjust_inventory(row, product_id, d) ==
  IF AdjustRefused(quantity[row], d)
    THEN /\ UNCHANGED <<quantity, ledger>>
         /\ lastOp' = AdjustOp(FALSE, row, d)
    ELSE /\ quantity' = [quantity EXCEPT ![row] = quantity[row] + d]
         /\ ledger' = Append(ledger, LogEntry(product_id, d, "adjustment", 0, quantity[row] + d))
         /\ lastOp' = AdjustOp(TRUE, row, d)

Deltas == {-1, 1}

\* POST /products/{id}/inventory
AdjustInventory(p, d) ==
  /\ ~sess.open
  /\ p \in DOMAIN quantity
  /\ Len(ledger) <= MaxLedger
  /\ quantity[p] + d <= MaxQty
  /\ adjust_inventory(p, p, d)
  /\ UNCHANGED <<ordVars, stock_requests, pickVars, auxVars, manualCount, extVars>>

\* POST /products/variants/{id}/inventory
AdjustVariantInventory(v, d) ==
  /\ ~sess.open
  /\ v \in DOMAIN quantity
  /\ Len(ledger) <= MaxLedger
  /\ quantity[v] + d <= MaxQty
  /\ adjust_inventory(v, VariantProduct[v], d)
  /\ UNCHANGED <<ordVars, stock_requests, pickVars, auxVars, manualCount, extVars>>

\* DELETE /products/variants/{variant_id}
DeleteVariant(v) ==
  /\ ~sess.open
  /\ IF v \in DOMAIN quantity
       THEN /\ quantity' = [row \in DOMAIN quantity \ {v} |-> quantity[row]]
            /\ lastOp' = OrderOp("delete_variant", TRUE, 0, "", v)
       ELSE /\ UNCHANGED quantity
            /\ lastOp' = OrderOp("delete_variant", FALSE, 0, "", v)
  /\ UNCHANGED <<ledger, ordVars, stock_requests, pickVars, auxVars, manualCount, extVars>>

(* -------------------------- picking_service --------------------------- *)
\* A PickItem row is keyed by its qr_code, here <<picking_list_id, order_id,
\* index of the order line, sequence>>.
ItemList(k) == k[1]
ItemOrder(k) == k[2]

ActiveStatuses == {"active", "processing"}

\* orders = db.query(Order).filter(Order.id.in_(order_ids)).all()
FoundOrders(order_ids) == order_ids \cap DOMAIN orders

NonPending_none(found) == {}

NonPending(found) == {o \in found : orders[o].status # "pending"}

AlreadyInBatch_none(order_ids) == {}

\* The order ids that have a PickItem in an active or processing batch.
AlreadyInBatch(order_ids) ==
  {ItemOrder(k) : k \in {x \in DOMAIN pick_items :
       /\ ItemOrder(x) \in order_ids
       /\ picking_lists[ItemList(x)].status \in ActiveStatuses}}

NewPickKeys_one_per_line(pl, found) ==
  UNION {{<<pl, o, i, 1>> : i \in 1..Len(orders[o].items)} : o \in found}

\* One PickItem per unit: range(1, item.quantity + 1) for each line of each order.
NewPickKeys(pl, found) ==
  UNION {UNION {{<<pl, o, i, seq>> : seq \in 1..orders[o].items[i].quantity} :
                 i \in 1..Len(orders[o].items)} : o \in found}

NewPickItem == [picked |-> FALSE, picked_at |-> 0]

WithRows(f, keys, row) == [k \in DOMAIN f \cup keys |-> IF k \in keys THEN row ELSE f[k]]
WithoutRows(f, keys) == [k \in DOMAIN f \ keys |-> f[k]]

BatchOp(op, ok, pl, ids, pre) == Op(op, ok, 0, pl, <<>>, ids, pre, "")

\* POST /picking-lists
CreatePickingList(order_ids) ==
  /\ ~sess.open
  /\ plSeq < MaxBatches
  /\ LET found == FoundOrders(order_ids)
         pl == plSeq + 1
     IN IF found = {} \/ NonPending(found) # {} \/ AlreadyInBatch(order_ids) # {}
          THEN /\ UNCHANGED <<picking_lists, pick_items, plSeq, orders>>
               /\ lastOp' = BatchOp("create_picking_list", FALSE, 0, order_ids, "")
          ELSE /\ picking_lists' = WithRows(picking_lists, {pl}, [status |-> "active"])
               /\ pick_items' = WithRows(pick_items, NewPickKeys(pl, found), NewPickItem)
               /\ orders' = [o \in DOMAIN orders |->
                               IF o \in found THEN [orders[o] EXCEPT !.status = "processing"]
                               ELSE orders[o]]
               /\ plSeq' = pl
               /\ lastOp' = BatchOp("create_picking_list", TRUE, pl, order_ids, "")
  /\ UNCHANGED <<invVars, orderSeq, stock_requests, now, auxVars, manualCount, extVars>>

ScanOp(ok, qr, order, pre, arg) == Op("scan_pick_item", ok, order, 0, qr, {}, pre, arg)

AlreadyPicked_never(item) == FALSE

\* if pick_item.picked: return the "Already picked" result
AlreadyPicked(item) == item.picked

\* The PickItems of the scanned item's order in the scanned item's batch.
OrderItemsIn(items, qr) ==
  {k \in DOMAIN items : ItemList(k) = ItemList(qr) /\ ItemOrder(k) = ItemOrder(qr)}

\* The result of a successful scan (lines 131-140).
ScanResult(qr, order, order_picked, order_total) ==
  [op |-> "scan_pick_item", ok |-> TRUE, order |-> order, pl |-> 0, qr |-> qr, ids |-> {},
   arg |-> "Picked", order_picked |-> order_picked, order_total |-> order_total,
   order_complete |-> order_picked >= order_total]

ScanOrderStatus_packed_only(status, order_picked, order_total) ==
  IF order_picked >= order_total THEN "packed" ELSE status

\* The order's status after a scan that found order_picked of order_total picked.
ScanOrderStatus(status, order_picked, order_total) ==
  IF order_picked >= order_total THEN "packed"
  ELSE IF status = "processing" THEN "packing"
  ELSE status

ScanPickItem_keeps_active(qr) ==
  /\ ~sess.open
  /\ now < MaxTime
  /\ IF qr \notin DOMAIN pick_items
       THEN /\ UNCHANGED <<picking_lists, pick_items, now, orders>>
            /\ lastOp' = ScanOp(FALSE, qr, 0, "", "QR code not found")
       ELSE IF AlreadyPicked(pick_items[qr])
       THEN /\ UNCHANGED <<picking_lists, pick_items, now, orders>>
            /\ lastOp' = ScanOp(FALSE, qr, ItemOrder(qr), "", "Already picked")
       ELSE LET items1 == [pick_items EXCEPT ![qr] = [picked |-> TRUE, picked_at |-> now]]
                mine == OrderItemsIn(items1, qr)
                order_total == Cardinality(mine)
                order_picked == Cardinality({k \in mine : items1[k].picked})
                o == ItemOrder(qr)
            IN /\ pick_items' = items1
               /\ now' = now + 1
               /\ picking_lists' = picking_lists
               /\ orders' =
                    IF o \in DOMAIN orders
                      THEN [orders EXCEPT ![o].status =
                              ScanOrderStatus(@, order_picked, order_total)]
                      ELSE orders
               /\ lastOp' = ScanResult(qr, o, order_picked, order_total)
  /\ UNCHANGED <<invVars, orderSeq, stock_requests, plSeq, auxVars, manualCount, extVars>>

\* POST /picking-lists/scan (scan_pick_item)
ScanPickItem(qr) ==
  /\ ~sess.open
  /\ now < MaxTime
  /\ IF qr \notin DOMAIN pick_items
       THEN /\ UNCHANGED <<picking_lists, pick_items, now, orders>>
            /\ lastOp' = ScanOp(FALSE, qr, 0, "", "QR code not found")
       ELSE IF AlreadyPicked(pick_items[qr])
       THEN /\ UNCHANGED <<picking_lists, pick_items, now, orders>>
            /\ lastOp' = ScanOp(FALSE, qr, ItemOrder(qr), "", "Already picked")
       ELSE LET items1 == [pick_items EXCEPT ![qr] = [picked |-> TRUE, picked_at |-> now]]
                mine == OrderItemsIn(items1, qr)
                order_total == Cardinality(mine)
                order_picked == Cardinality({k \in mine : items1[k].picked})
                o == ItemOrder(qr)
            IN /\ pick_items' = items1
               /\ now' = now + 1
               /\ picking_lists' =
                    IF ItemList(qr) \in DOMAIN picking_lists
                       /\ picking_lists[ItemList(qr)].status = "active"
                      THEN [picking_lists EXCEPT ![ItemList(qr)].status = "processing"]
                      ELSE picking_lists
               /\ orders' =
                    IF o \in DOMAIN orders
                      THEN [orders EXCEPT ![o].status =
                              ScanOrderStatus(@, order_picked, order_total)]
                      ELSE orders
               /\ lastOp' = ScanResult(qr, o, order_picked, order_total)
  /\ UNCHANGED <<invVars, orderSeq, stock_requests, plSeq, auxVars, manualCount, extVars>>

BatchInduced == {"processing", "packing", "packed"}

ReleaseOrders_every_member(ids) ==
  [o \in DOMAIN orders |->
     IF o \in ids THEN [orders[o] EXCEPT !.status = "pending"] ELSE orders[o]]

\* Reset the orders in ids that are in a batch-induced status back to pending.
ReleaseOrders(ids) ==
  [o \in DOMAIN orders |->
     IF o \in ids /\ orders[o].status \in BatchInduced
       THEN [orders[o] EXCEPT !.status = "pending"]
       ELSE orders[o]]

ItemsOfList(pl) == {k \in DOMAIN pick_items : ItemList(k) = pl}

NotActive_archived_only(status) == status = "archived"

\* if pl.status != PickingListStatus.ACTIVE: raise ValueError(...)
NotActive(status) == status # "active"

\* DELETE /picking-lists/{id}
DeletePickingList(pl) ==
  /\ ~sess.open
  /\ pl \in DOMAIN picking_lists
  /\ IF NotActive(picking_lists[pl].status)
       THEN /\ UNCHANGED <<picking_lists, pick_items, orders>>
            /\ lastOp' = BatchOp("delete_picking_list", FALSE, pl, {}, picking_lists[pl].status)
       ELSE /\ orders' = ReleaseOrders({ItemOrder(k) : k \in ItemsOfList(pl)})
            /\ pick_items' = WithoutRows(pick_items, ItemsOfList(pl))
            /\ picking_lists' = WithoutRows(picking_lists, {pl})
            /\ lastOp' = BatchOp("delete_picking_list", TRUE, pl,
                                  {ItemOrder(k) : k \in ItemsOfList(pl)}, "active")
  /\ UNCHANGED <<invVars, orderSeq, stock_requests, plSeq, now, auxVars, manualCount, extVars>>

RemoveOrderFromPickingList_keeps_empty(pl, order_id) ==
  /\ ~sess.open
  /\ pl \in DOMAIN picking_lists
  /\ LET items_to_remove == {k \in ItemsOfList(pl) : ItemOrder(k) = order_id}
         op == "remove_order_from_picking_list"
     IN IF NotActive(picking_lists[pl].status) \/ items_to_remove = {}
          THEN /\ UNCHANGED <<picking_lists, pick_items, orders>>
               /\ lastOp' = Op(op, FALSE, order_id, pl, <<>>, {}, picking_lists[pl].status, "")
          ELSE /\ pick_items' = WithoutRows(pick_items, items_to_remove)
               /\ orders' = ReleaseOrders({order_id})
               /\ UNCHANGED picking_lists
               /\ lastOp' = Op(op, TRUE, order_id, pl, <<>>, {}, "active", "")
  /\ UNCHANGED <<invVars, orderSeq, stock_requests, plSeq, now, auxVars, manualCount, extVars>>

\* DELETE /picking-lists/{id}/orders/{order_id}
RemoveOrderFromPickingList(pl, order_id) ==
  /\ ~sess.open
  /\ pl \in DOMAIN picking_lists
  /\ LET items_to_remove == {k \in ItemsOfList(pl) : ItemOrder(k) = order_id}
         op == "remove_order_from_picking_list"
     IN IF NotActive(picking_lists[pl].status) \/ items_to_remove = {}
          THEN /\ UNCHANGED <<picking_lists, pick_items, orders>>
               /\ lastOp' = Op(op, FALSE, order_id, pl, <<>>, {}, picking_lists[pl].status, "")
          ELSE /\ pick_items' = WithoutRows(pick_items, items_to_remove)
               /\ orders' = ReleaseOrders({order_id})
               /\ picking_lists' =
                    IF ItemsOfList(pl) \ items_to_remove = {}
                      THEN WithoutRows(picking_lists, {pl})
                      ELSE picking_lists
               /\ lastOp' = Op(op, TRUE, order_id, pl, <<>>, {}, "active",
                               IF ItemsOfList(pl) \ items_to_remove = {}
                                 THEN "picking_list_deleted" ELSE "")
  /\ UNCHANGED <<invVars, orderSeq, stock_requests, plSeq, now, auxVars, manualCount, extVars>>

ArchivePickingList_any_status(pl) ==
  /\ ~sess.open
  /\ pl \in DOMAIN picking_lists
  /\ IF picking_lists[pl].status = "archived"
       THEN /\ UNCHANGED picking_lists
            /\ lastOp' = BatchOp("archive_picking_list", FALSE, pl, {}, picking_lists[pl].status)
       ELSE /\ picking_lists' = [picking_lists EXCEPT ![pl].status = "archived"]
            /\ lastOp' = BatchOp("archive_picking_list", TRUE, pl, {}, picking_lists[pl].status)
  /\ UNCHANGED <<invVars, ordVars, stock_requests, pick_items, plSeq, now, auxVars, manualCount, extVars>>

\* POST /picking-lists/{id}/archive
ArchivePickingList(pl) ==
  /\ ~sess.open
  /\ pl \in DOMAIN picking_lists
  /\ IF \/ picking_lists[pl].status = "archived"
        \/ ItemsOfList(pl) # {} /\ picking_lists[pl].status # "done"
       THEN /\ UNCHANGED picking_lists
            /\ lastOp' = BatchOp("archive_picking_list", FALSE, pl, {}, picking_lists[pl].status)
       ELSE /\ picking_lists' = [picking_lists EXCEPT ![pl].status = "archived"]
            /\ lastOp' = BatchOp("archive_picking_list", TRUE, pl, {}, picking_lists[pl].status)
  /\ UNCHANGED <<invVars, ordVars, stock_requests, pick_items, plSeq, now, auxVars, manualCount, extVars>>

GetPickingListProgress_starts(pl) ==
  /\ ~sess.open
  /\ pl \in DOMAIN picking_lists
  /\ picking_lists' =
       IF picking_lists[pl].status = "active"
         THEN [picking_lists EXCEPT ![pl].status = "processing"]
         ELSE picking_lists
  /\ lastOp' = BatchOp("get_picking_list_progress", TRUE, pl, {}, picking_lists[pl].status)
  /\ UNCHANGED <<invVars, ordVars, stock_requests, pick_items, plSeq, now, auxVars, manualCount, extVars>>

\* GET /picking-lists/{id}/progress: queries only.
GetPickingListProgress(pl) ==
  /\ ~sess.open
  /\ pl \in DOMAIN picking_lists
  /\ UNCHANGED picking_lists
  /\ lastOp' = BatchOp("get_picking_list_progress", TRUE, pl, {}, picking_lists[pl].status)
  /\ UNCHANGED <<invVars, ordVars, stock_requests, pick_items, plSeq, now, auxVars, manualCount, extVars>>

GetPickingSummary_any_status(pl) ==
  /\ ~sess.open
  /\ pl \in DOMAIN picking_lists
  /\ picking_lists' = [picking_lists EXCEPT ![pl].status = "processing"]
  /\ lastOp' = BatchOp("get_picking_summary", TRUE, pl, {}, picking_lists[pl].status)
  /\ UNCHANGED <<invVars, ordVars, stock_requests, pick_items, plSeq, now, auxVars, manualCount, extVars>>

\* GET /picking-lists/{id}/summary: viewing the summary starts the batch.
GetPickingSummary(pl) ==
  /\ ~sess.open
  /\ pl \in DOMAIN picking_lists
  /\ picking_lists' =
       IF picking_lists[pl].status = "active"
         THEN [picking_lists EXCEPT ![pl].status = "processing"]
         ELSE picking_lists
  /\ lastOp' = BatchOp("get_picking_summary", TRUE, pl, {}, picking_lists[pl].status)
  /\ UNCHANGED <<invVars, ordVars, stock_requests, pick_items, plSeq, now, auxVars, manualCount, extVars>>

DropOffStatuses_drop_off_only == {"drop_off"}

\* drop_off_statuses, line 284
DropOffStatuses == {"drop_off", "shipped", "in_transit", "delivered"}

check_batch_done_own_order(ords, order_id) ==
  LET cands == {ItemList(k) : k \in {x \in DOMAIN pick_items :
                   /\ ItemOrder(x) = order_id
                   /\ picking_lists[ItemList(x)].status = "processing"}}
  IN IF cands = {} THEN {picking_lists}
     ELSE {[picking_lists EXCEPT ![pl].status = "done"] : pl \in cands}

\* check_batch_done over the order rows ords: the picking lists afterwards.
\* .first() picks any PickItem of the order in a processing batch.
check_batch_done(ords, order_id) ==
  LET cands == {ItemList(k) : k \in {x \in DOMAIN pick_items :
                   /\ ItemOrder(x) = order_id
                   /\ picking_lists[ItemList(x)].status = "processing"}}
      Done(pl) == \A o \in {ItemOrder(k) : k \in ItemsOfList(pl)} :
                     o \in DOMAIN ords /\ ords[o].status \in DropOffStatuses
  IN IF cands = {} THEN {picking_lists}
     ELSE {IF Done(pl) THEN [picking_lists EXCEPT ![pl].status = "done"] ELSE picking_lists :
             pl \in cands}

\* PATCH /orders/{id}/status: update_order_status, then check_batch_done when
\* the new status is drop_off.
UpdateOrderStatus(id, status) ==
  /\ ~sess.open
  /\ id \in DOMAIN orders
  /\ manualCount < MaxManual
  /\ Len(orders[id].status_history) < MaxHist
  /\ LET ords == [orders EXCEPT ![id] =
                    _add_status_history([@ EXCEPT !.status = status], status, "manual")]
     IN /\ orders' = ords
        /\ picking_lists' \in (IF status = "drop_off"
                                 THEN check_batch_done(ords, id) ELSE {picking_lists})
  /\ manualCount' = manualCount + 1
  /\ lastOp' = OrderOp("update_order_status", TRUE, id, orders[id].status, status)
  /\ UNCHANGED <<invVars, orderSeq, stock_requests, pick_items, plSeq, now, auxVars, extVars>>


(* ------------------------- shipping_service --------------------------- *)
\* A string is the sequence of its characters.
ToLower == [A |-> "a", F |-> "f", G |-> "g", P |-> "p", S |-> "s", U |-> "u", X |-> "x"]
Digit == [c \in {"0", "1", "5", "7"} |->
            CASE c = "0" -> 0 [] c = "1" -> 1 [] c = "5" -> 5 [] c = "7" -> 7]

\* str.lower()
lower(str) == [i \in 1..Len(str) |-> IF str[i] \in DOMAIN ToLower THEN ToLower[str[i]] ELSE str[i]]

\* a in b, for strings
Contains(a, b) == \E i \in 0..(Len(b) - Len(a)) : SubSeq(b, i + 1, i + Len(a)) = a

\* float(r.rate) of a rate written in digits
RECURSIVE float(_)
float(str) ==
  IF str = <<>> THEN 0
  ELSE 10 * float(SubSeq(str, 1, Len(str) - 1)) + Digit[str[Len(str)]]

Quote(c, sv, rate) == [carrier |-> c, service |-> sv, rate |-> rate]

\* for r in rates: if <condition>: return r  -- the index of the first quote among
\* those matching the condition, or 0
FirstMatch(rates, matching) ==
  IF \E i \in 1..Len(rates) : rates[i] \in matching
    THEN CHOOSE i \in 1..Len(rates) :
           rates[i] \in matching /\ \A j \in 1..(i - 1) : rates[j] \notin matching
    ELSE 0

\* min(rates, key=lambda r: float(r.rate)): the first of the cheapest
MinRate(rates) ==
  rates[CHOOSE i \in 1..Len(rates) :
          /\ \A j \in 1..Len(rates) : float(rates[i].rate) <= float(rates[j].rate)
          /\ \A j \in 1..(i - 1) : float(rates[j].rate) > float(rates[i].rate)]

_find_rate_cheapest(rates, c, sv) == IF rates = <<>> THEN None ELSE MinRate(rates)

_find_rate(rates, c, sv) ==
  LET c_lower == lower(c)
      s_lower == lower(sv)
      Range == {rates[i] : i \in 1..Len(rates)}
      Exact == {r \in Range : r.carrier = c /\ r.service = sv}
      NoCase == {r \in Range : lower(r.carrier) = c_lower /\ lower(r.service) = s_lower}
      Partial == {r \in Range :
                    /\ lower(r.carrier) = c_lower
                    /\ (Contains(s_lower, lower(r.service)) \/ Contains(lower(r.service), s_lower))}
      carrier_rates == SelectSeq(rates, LAMBDA r : lower(r.carrier) = c_lower)
  IN IF rates = <<>> THEN None
     ELSE IF FirstMatch(rates, Exact) # 0 THEN rates[FirstMatch(rates, Exact)]
     ELSE IF FirstMatch(rates, NoCase) # 0 THEN rates[FirstMatch(rates, NoCase)]
     ELSE IF FirstMatch(rates, Partial) # 0 THEN rates[FirstMatch(rates, Partial)]
     ELSE IF carrier_rates # <<>> THEN MinRate(carrier_rates)
     ELSE MinRate(rates)

DEFAULT_CARRIER == <<"U", "S", "P", "S">>
DEFAULT_SERVICE == <<"G", "r", "o", "u", "n", "d", "A", "d", "v", "a", "n", "t", "a", "g", "e">>
\* The quotes the carrier returns for a shipment when it returns any.
ShipmentRates == <<Quote(<<"F">>, <<"G", "r", "o", "u", "n", "d">>, <<"5">>),
                   Quote(DEFAULT_CARRIER, DEFAULT_SERVICE, <<"7">>)>>

\* sum(i.quantity * i.unit_price for i in order.items)
items_subtotal(order) ==
  SumSeq([i \in 1..Len(order.items) |-> order.items[i].quantity * order.items[i].unit_price],
         Len(order.items))

\* buy_label.  The carrier's answer: has_rates (shipment.rates non-empty),
\* tracking_code (0 when bought.tracking_code is empty; otherwise the order's
\* id, as carrier codes are unique) and has_label (a postage label came back).
LabelAlreadyPurchased(order) == order.easypost_shipment_id # 0 /\ order.label_url # ""

\* Lines 163-177, after client.shipment.buy.
buy_label(order, id, tracking_code, has_label, selected_rate) ==
  _add_status_history(
    [order EXCEPT !.easypost_shipment_id = id,
                  !.tracking_number = tracking_code,
                  !.tracking_url = IF tracking_code # 0 THEN "url" ELSE "",
                  !.label_url = IF has_label THEN "label" ELSE "",
                  !.shipping_cost = float(selected_rate.rate),
                  !.total_price = items_subtotal(order) + order.processing_fee
                                    + float(selected_rate.rate),
                  !.status = "label_purchased"],
    "label_purchased", "Label purchased")

\* POST /orders/{id}/buy-label
BuyLabel(id, has_rates, tracking_code, has_label) ==
  /\ ~sess.open
  /\ id \in DOMAIN orders
  /\ Len(orders[id].status_history) < MaxHist
  /\ LET rates == IF has_rates THEN ShipmentRates ELSE <<>>
         selected_rate == _find_rate(rates, DEFAULT_CARRIER, DEFAULT_SERVICE)
     IN IF LabelAlreadyPurchased(orders[id]) \/ rates = <<>> \/ selected_rate = None
          THEN /\ UNCHANGED <<orders, carrier>>
               /\ lastOp' = OrderOp("buy_label", FALSE, id, orders[id].status, "")
          ELSE /\ orders' = [orders EXCEPT ![id] =
                               buy_label(@, id, tracking_code, has_label, selected_rate)]
               /\ carrier' = [carrier EXCEPT ![id] = [purchases |-> @.purchases + 1,
                                                      unrefunded |-> TRUE]]
               /\ lastOp' = OrderOp("buy_label", TRUE, id, orders[id].status, "")
  /\ UNCHANGED <<invVars, orderSeq, stock_requests, pickVars, auxVars, manualCount, rateCall>>

refund_shipment_keeps_cost(order) ==
  [order EXCEPT !.label_url = "", !.tracking_number = 0, !.tracking_url = "",
                !.tracking_status = "",
                !.total_price = items_subtotal(order) + order.processing_fee]

\* Lines 193-200, after client.shipment.refund.
refund_shipment(order) ==
  [order EXCEPT !.label_url = "", !.tracking_number = 0, !.tracking_url = "",
                !.tracking_status = "", !.shipping_cost = 0,
                !.total_price = items_subtotal(order) + order.processing_fee]

\* The names and rates _find_rate is studied on: two spellings of one carrier and
\* another carrier; a service, its other spelling, a longer name that contains
\* it, and the empty name; a rate of one digit and a rate of two.
CarrierNames == {<<"U">>, <<"u">>, <<"F">>}
ServiceNames == {<<"P">>, <<"p">>, <<"P", "X">>, <<>>}
RateStrings == {<<"5">>, <<"1", "0">>}
Quotes == {Quote(c, sv, rate) : c \in CarrierNames, sv \in ServiceNames, rate \in RateStrings}
RateLists == UNION {[1..n -> Quotes] : n \in 0..MaxQuotes}
RateCalls == {[called |-> FALSE, rates |-> rates, carrier |-> c, service |-> sv,
               result |-> None] : rates \in RateLists, c \in CarrierNames, sv \in ServiceNames}

\* selected_rate = _find_rate(rates, carrier, service)
FindRate ==
  /\ ~rateCall.called
  /\ rateCall' = [rateCall EXCEPT
                    !.called = TRUE,
                    !.result = _find_rate(rateCall.rates, rateCall.carrier, rateCall.service)]
  /\ lastOp' = OrderOp("_find_rate", rateCall.rates # <<>>, 0, "", "")
  /\ UNCHANGED <<invVars, ordVars, stock_requests, pickVars, auxVars, manualCount, carrier>>

\* refund_shipment(db, order)
RefundShipment(id) ==
  /\ ~sess.open
  /\ id \in DOMAIN orders
  /\ IF orders[id].easypost_shipment_id = 0
       THEN /\ UNCHANGED <<orders, carrier>>
            /\ lastOp' = OrderOp("refund_shipment", FALSE, id, "", "")
       ELSE /\ orders' = [orders EXCEPT ![id] = refund_shipment(@)]
            /\ carrier' = [carrier EXCEPT ![id].unrefunded = FALSE]
            /\ lastOp' = OrderOp("refund_shipment", TRUE, id, "", "")
  /\ UNCHANGED <<invVars, orderSeq, stock_requests, pickVars, auxVars, manualCount, rateCall>>

(* --------------------------- api/webhooks ----------------------------- *)
\* EasyPost tracking status -> internal order status; "" when there is none.
_TRACKING_TO_ORDER_STATUS(tracking_status) ==
  CASE tracking_status = "in_transit" -> "in_transit"
    [] tracking_status = "out_for_delivery" -> "in_transit"
    [] tracking_status = "delivered" -> "delivered"
    [] OTHER -> ""

_PRE_SHIPPED_label_only == {"label_purchased"}

_PRE_SHIPPED == {"label_purchased", "drop_off"}

TrackingStatuses == {"pre_transit", "in_transit", "out_for_delivery", "delivered"}

webhook_apply_every_event(order, tracking_status) ==
  LET o1 == IF order.status \in _PRE_SHIPPED
              THEN _add_status_history([order EXCEPT !.status = "shipped"],
                                       "shipped", "First carrier scan from EasyPost")
              ELSE order
      new_order_status == _TRACKING_TO_ORDER_STATUS(tracking_status)
  IN IF new_order_status # ""
       THEN _add_status_history([o1 EXCEPT !.status = new_order_status],
                                new_order_status, "EasyPost tracking")
       ELSE o1

\* Lines 83-99: the order after the optional shipped step and the target step.
webhook_apply(order, tracking_status) ==
  LET o1 == IF order.status \in _PRE_SHIPPED
              THEN _add_status_history([order EXCEPT !.status = "shipped"],
                                       "shipped", "First carrier scan from EasyPost")
              ELSE order
      new_order_status == _TRACKING_TO_ORDER_STATUS(tracking_status)
  IN IF new_order_status # "" /\ o1.status # new_order_status
       THEN _add_status_history([o1 EXCEPT !.status = new_order_status],
                                new_order_status, "EasyPost tracking")
       ELSE o1

OrderByTracking(tracking_code) ==
  {o \in DOMAIN orders : orders[o].tracking_number = tracking_code}

\* POST /webhooks/easypost with result.tracking_code and result.status.
\* notified: send_webhook_sync is called (line 105), that is a status entry was
\* added or the tracking status differs from the stored one.
EasypostWebhook(tracking_code, tracking_status) ==
  /\ ~sess.open
  /\ IF tracking_code = 0 \/ OrderByTracking(tracking_code) = {}
       THEN /\ UNCHANGED orders
            /\ lastOp' = OrderOp("easypost_webhook", FALSE, 0, "", tracking_status)
       ELSE \E id \in OrderByTracking(tracking_code) :
              /\ Len(webhook_apply(orders[id], tracking_status).status_history) <= MaxHist
              /\ orders' = [orders EXCEPT ![id] =
                    webhook_apply([@ EXCEPT !.tracking_status = tracking_status],
                                  tracking_status)]
              /\ lastOp' = OrderOp("easypost_webhook", TRUE, id, orders[id].status,
                                   tracking_status)
                              @@ [notified |->
                                    \/ orders'[id].status_history # orders[id].status_history
                                    \/ orders[id].tracking_status # tracking_status]
  /\ UNCHANGED <<invVars, orderSeq, stock_requests, pickVars, auxVars, manualCount, extVars>>

\* The bodies of a POST /webhooks/easypost: text that is not JSON; JSON that is
\* not an object (a list, a string, a number, null); an object without "result";
\* an object whose "result" is not an object; an object with a "result" object.
Bodies == {"invalid_json", "not_object", "no_result", "result_not_object", "result_object"}

\* The answer (http: its status code) and the processing of one request.
RequestOp(http, ok, id, body) ==
  [op |-> "easypost_request", ok |-> ok, order |-> id, pl |-> 0, qr |-> <<>>, ids |-> {},
   arg |-> body, http |-> http]

\* easypost_webhook from the raw request: lines 52-55 answer invalid JSON;
\* payload.get (line 57) and result.get (line 59) raise AttributeError on a
\* value that is not a dict, which the framework answers with status 500; a
\* missing "result" reads as {} and so as an empty tracking code.
EasypostRequest(body, tracking_code, tracking_status) ==
  /\ ~sess.open
  /\ IF body = "invalid_json"
       THEN /\ UNCHANGED orders
            /\ lastOp' = RequestOp(200, FALSE, 0, body)
       ELSE IF body \in {"not_object", "result_not_object"}
       THEN /\ UNCHANGED orders
            /\ lastOp' = RequestOp(500, FALSE, 0, body)
       ELSE LET code == IF body = "no_result" THEN 0 ELSE tracking_code
            IN IF code = 0 \/ OrderByTracking(code) = {}
                 THEN /\ UNCHANGED orders
                      /\ lastOp' = RequestOp(200, FALSE, 0, body)
                 ELSE \E id \in OrderByTracking(code) :
                        /\ Len(webhook_apply(orders[id], tracking_status).status_history)
                             <= MaxHist
                        /\ orders' = [orders EXCEPT ![id] =
                              webhook_apply([@ EXCEPT !.tracking_status = tracking_status],
                                            tracking_status)]
                        /\ lastOp' = RequestOp(200, TRUE, id, body)
  /\ UNCHANGED <<invVars, orderSeq, stock_requests, pickVars, auxVars, manualCount, extVars>>

(* ----------------------- api/orders import_orders --------------------- *)
\* POST /orders/import runs create_order once per CSV group on ONE session,
\* catching the ValueError of a failed group and going on.  The lines have been
\* resolved from SKUs, so they name rows that exist, with quantity >= 1.
ImportA == <<Line("p1", "", 1), Line("p2", "v1", 3)>>
ImportB == <<Line("p2", "v1", 1)>>
ImportGroupLists == {<<ImportA, ImportB>>, <<ImportA>>, <<ImportB, ImportA>>}

ImportBegin(groups) ==
  /\ ~sess.open
  /\ sess' = [open |-> TRUE, W |-> Committed, todo |-> groups]
  /\ lastOp' = OrderOp("import_orders", TRUE, 0, "", "begin")
  /\ UNCHANGED <<invVars, ordVars, stock_requests, pickVars, failedAttempts, reqs, manualCount, extVars>>

\* One turn of the loop "for order_name in group_order".
ImportCreateOrder ==
  /\ sess.open
  /\ sess.todo # <<>>
  /\ orderSeq < MaxOrders
  /\ Len(sess.W.ledger) + Len(Head(sess.todo)) <= MaxLedger + 1
  /\ LET id == orderSeq + 1
         r == create_order(sess.W, id, Head(sess.todo))
     IN /\ IF r.ok
             THEN /\ Commit(r.W)
                  /\ UNCHANGED failedAttempts
             ELSE /\ UNCHANGED <<quantity, ledger, orders>>
                  /\ failedAttempts' = failedAttempts \cup {id}
        /\ sess' = [open |-> TRUE, W |-> r.W, todo |-> Tail(sess.todo)]
        /\ orderSeq' = id
        /\ lastOp' = OrderOp("import_orders", r.ok, id, "", "create_order")
  /\ UNCHANGED <<stock_requests, pickVars, reqs, manualCount, extVars>>

\* The handler returns and get_db closes the session: what was not committed is
\* rolled back.
ImportEnd ==
  /\ sess.open
  /\ sess.todo = <<>>
  /\ sess' = NoSession
  /\ lastOp' = OrderOp("import_orders", TRUE, 0, "", "end")
  /\ UNCHANGED <<invVars, ordVars, stock_requests, pickVars, failedAttempts, reqs, manualCount, extVars>>

(* ---------------------- stock_request_service ------------------------- *)
SrIds == {-1}
SrItem(p, v, q) ==
  [product_id |-> p, variant_id |-> v, quantity_requested |-> q, quantity_received |-> 0]
SrItemLists == {<<SrItem("p1", "", 1), SrItem("p2", "v1", 1)>>}

SrOp(op, ok, sr) == Op(op, ok, 0, 0, <<>>, {sr}, "", "")

\* POST /stock-requests
CreateStockRequest(sr, items) ==
  /\ ~sess.open
  /\ sr \notin DOMAIN stock_requests
  /\ stock_requests' = WithRows(stock_requests, {sr}, [status |-> "pending", items |-> items])
  /\ lastOp' = SrOp("create_stock_request", TRUE, sr)
  /\ UNCHANGED <<invVars, ordVars, pickVars, auxVars, manualCount, extVars>>

\* POST /stock-requests/{id}/approve
ApproveStockRequest(sr) ==
  /\ ~sess.open
  /\ sr \in DOMAIN stock_requests
  /\ IF stock_requests[sr].status # "pending"
       THEN /\ UNCHANGED stock_requests
            /\ lastOp' = SrOp("approve_stock_request", FALSE, sr)
       ELSE /\ stock_requests' = [stock_requests EXCEPT ![sr].status = "approved"]
            /\ lastOp' = SrOp("approve_stock_request", TRUE, sr)
  /\ UNCHANGED <<invVars, ordVars, pickVars, auxVars, manualCount, extVars>>

Recv(item_id, q) == [item_id |-> item_id, quantity_received |-> q]
RecvLists == {<<Recv(1, 1)>>, <<Recv(2, 0)>>, <<Recv(3, 1)>>, <<Recv(2, 1), Recv(1, -1)>>}

\* The loop "for recv in data.items" of receive_items on the state
\* S = [sr, quantity, ledger]; ok = FALSE when it raises.
RECURSIVE receive_lines(_, _, _, _)
receive_lines(S, id, recvs, i) ==
  IF i > Len(recvs) THEN [ok |-> TRUE, S |-> S]
  ELSE LET recv == recvs[i] IN
    IF recv.item_id \notin 1..Len(S.sr.items) \/ recv.quantity_received < 0
      THEN [ok |-> FALSE, S |-> S]
    ELSE LET item == S.sr.items[recv.item_id]
             row == LineRow(item)
             found == row \in DOMAIN S.quantity
             q == IF found THEN S.quantity[row] + recv.quantity_received
                  ELSE recv.quantity_received
             S1 == [S EXCEPT !.sr.items[recv.item_id].quantity_received =
                               recv.quantity_received]
         IN receive_lines(
              IF recv.quantity_received > 0
                THEN [S1 EXCEPT !.quantity = IF found THEN [@ EXCEPT ![row] = q] ELSE @,
                                !.ledger = Append(@, LogEntry(item.product_id,
                                     recv.quantity_received, "stock_request", id, q))]
                ELSE S1,
              id, recvs, i + 1)

\* POST /stock-requests/{id}/receive
ReceiveItems(sr, recvs) ==
  /\ ~sess.open
  /\ sr \in DOMAIN stock_requests
  /\ Len(ledger) + Len(recvs) <= MaxLedger + 1
  /\ LET r == receive_lines(
                [sr |-> [stock_requests[sr] EXCEPT !.status = "receiving"],
                 quantity |-> quantity, ledger |-> ledger], sr, recvs, 1)
     IN IF stock_requests[sr].status \notin {"approved", "receiving"} \/ ~r.ok
          THEN /\ UNCHANGED <<stock_requests, quantity, ledger>>
               /\ lastOp' = SrOp("receive_items", FALSE, sr)
          ELSE /\ \A row \in DOMAIN quantity : r.S.quantity[row] <= MaxQty
               /\ stock_requests' = [stock_requests EXCEPT ![sr] = r.S.sr]
               /\ quantity' = r.S.quantity
               /\ ledger' = r.S.ledger
               /\ lastOp' = SrOp("receive_items", TRUE, sr)
  /\ UNCHANGED <<ordVars, pickVars, auxVars, manualCount, extVars>>


(* ---------------- concurrent create_picking_list requests ------------- *)
\* Two requests, each on its own session, run create_picking_list as the three
\* database round trips it makes: the orders query (line 18), the
\* already-in-batch query (lines 29-38) and the flush and commit (lines 48-73).
Reqs == {1, 2}
IdleReq == [pc |-> "idle", order_ids |-> {}, found |-> {}, pl |-> 0]

ReqOp(ok, r, pl, ids) == Op("create_picking_list", ok, 0, pl, <<>>, ids, "", "concurrent")

ConcQueryOrders(r, order_ids) ==
  /\ reqs[r].pc = "idle"
  /\ LET found == FoundOrders(order_ids)
     IN IF found = {} \/ NonPending(found) # {}
          THEN /\ reqs' = [reqs EXCEPT ![r] = [IdleReq EXCEPT !.pc = "failed",
                                                         !.order_ids = order_ids]]
               /\ lastOp' = ReqOp(FALSE, r, 0, order_ids)
          ELSE /\ reqs' = [reqs EXCEPT ![r] = [pc |-> "orders_loaded", order_ids |-> order_ids,
                                              found |-> found, pl |-> 0]]
               /\ UNCHANGED lastOp
  /\ UNCHANGED <<invVars, ordVars, stock_requests, pickVars, sess, failedAttempts, manualCount, extVars>>

ConcQueryBatches(r) ==
  /\ reqs[r].pc = "orders_loaded"
  /\ IF AlreadyInBatch(reqs[r].order_ids) # {}
       THEN /\ reqs' = [reqs EXCEPT ![r].pc = "failed"]
            /\ lastOp' = ReqOp(FALSE, r, 0, reqs[r].order_ids)
       ELSE /\ reqs' = [reqs EXCEPT ![r].pc = "validated"]
            /\ UNCHANGED lastOp
  /\ UNCHANGED <<invVars, ordVars, stock_requests, pickVars, sess, failedAttempts, manualCount, extVars>>

ConcCommit(r) ==
  /\ reqs[r].pc = "validated"
  /\ LET pl == plSeq + 1
         found == reqs[r].found
     IN /\ picking_lists' = WithRows(picking_lists, {pl}, [status |-> "active"])
        /\ pick_items' = WithRows(pick_items, NewPickKeys(pl, found), NewPickItem)
        /\ orders' = [o \in DOMAIN orders |->
                        IF o \in found THEN [orders[o] EXCEPT !.status = "processing"]
                        ELSE orders[o]]
        /\ plSeq' = pl
        /\ reqs' = [reqs EXCEPT ![r].pc = "done", ![r].pl = pl]
        /\ lastOp' = ReqOp(TRUE, r, pl, reqs[r].order_ids)
  /\ UNCHANGED <<invVars, orderSeq, stock_requests, now, sess, failedAttempts, manualCount, extVars>>

(* ------------------- scan_pick_item, two at a time -------------------- *)
\* Each request has its own session (get_db) with autoflush off: its queries read
\* the committed rows, its changes stay in the session until db.commit().  The
\* steps are the pick-item query with the marking (lines 88-101), the queries of
\* the batch, of the order's items and of the order (lines 104-126) and the
\* commit (line 128).
ScanReq(pc, qr, picked_at, batch_status, order_status) ==
  [pc |-> pc, qr |-> qr, picked_at |-> picked_at, batch_status |-> batch_status,
   order_status |-> order_status]

ConcScanQueryItem(r, qr) ==
  /\ reqs[r].pc = "idle"
  /\ now < MaxTime
  /\ IF qr \notin DOMAIN pick_items \/ AlreadyPicked(pick_items[qr])
       THEN /\ reqs' = [reqs EXCEPT ![r] = ScanReq("scan_failed", qr, 0, "", "")]
            /\ lastOp' = ScanOp(FALSE, qr, 0, "", "concurrent")
            /\ UNCHANGED now
       ELSE /\ reqs' = [reqs EXCEPT ![r] = ScanReq("item_marked", qr, now, "", "")]
            /\ now' = now + 1
            /\ UNCHANGED lastOp
  /\ UNCHANGED <<invVars, ordVars, stock_requests, picking_lists, pick_items, plSeq, sess,
                 failedAttempts, manualCount, extVars>>

\* The session's own item counts as picked; the others are as committed.
ConcScanQueryProgress(r) ==
  /\ reqs[r].pc = "item_marked"
  /\ LET qr == reqs[r].qr
         mine == OrderItemsIn(pick_items, qr)
         order_total == Cardinality(mine)
         order_picked == Cardinality({k \in mine : k = qr \/ pick_items[k].picked})
         o == ItemOrder(qr)
         new_status == IF o \in DOMAIN orders
                         THEN ScanOrderStatus(orders[o].status, order_picked, order_total)
                         ELSE ""
     IN reqs' = [reqs EXCEPT ![r] =
                   ScanReq("progress_read", qr, reqs[r].picked_at,
                           IF ItemList(qr) \in DOMAIN picking_lists
                              /\ picking_lists[ItemList(qr)].status = "active"
                             THEN "processing" ELSE "",
                           IF o \in DOMAIN orders /\ new_status # orders[o].status
                             THEN new_status ELSE "")]
  /\ UNCHANGED <<invVars, ordVars, stock_requests, pickVars, sess, failedAttempts,
                 manualCount, extVars, lastOp>>

\* db.commit(): the UPDATEs of the attributes the session changed.
ConcScanCommit(r) ==
  /\ reqs[r].pc = "progress_read"
  /\ LET qr == reqs[r].qr
         o == ItemOrder(qr)
     IN /\ pick_items' = [pick_items EXCEPT ![qr] =
                            [picked |-> TRUE, picked_at |-> reqs[r].picked_at]]
        /\ picking_lists' = IF reqs[r].batch_status # ""
                              THEN [picking_lists EXCEPT ![ItemList(qr)].status =
                                      reqs[r].batch_status]
                              ELSE picking_lists
        /\ orders' = IF reqs[r].order_status # ""
                       THEN [orders EXCEPT ![o].status = reqs[r].order_status]
                       ELSE orders
        /\ lastOp' = ScanOp(TRUE, qr, o, "", "concurrent")
  /\ reqs' = [reqs EXCEPT ![r].pc = "scan_done"]
  /\ UNCHANGED <<invVars, orderSeq, stock_requests, plSeq, now, sess, failedAttempts,
                 manualCount, extVars>>

(* ------------- requests on one quantity row, two at a time ------------ *)
\* A request reads the committed rows into its session (base), changes them
\* there (W), and at db.commit() writes the rows it changed with the values its
\* session holds: a quantity is written as the number computed from the value
\* read, not as an increment.
QtyReq(pc, op, base, W) == [pc |-> pc, op |-> op, base |-> base, W |-> W]

ConcCreateOrderRead(r, items) ==
  /\ reqs[r].pc = "idle"
  /\ orderSeq < MaxOrders
  /\ LET id == orderSeq + 1
         res == create_order(Committed, id, items)
     IN /\ orderSeq' = id
        /\ IF res.ok
             THEN /\ reqs' = [reqs EXCEPT ![r] =
                               QtyReq("write_pending", "create_order", Committed, res.W)]
                  /\ UNCHANGED lastOp
             ELSE /\ reqs' = [reqs EXCEPT ![r] =
                               QtyReq("refused", "create_order", Committed, Committed)]
                  /\ lastOp' = OrderOp("create_order", FALSE, 0, "", "concurrent")
  /\ UNCHANGED <<invVars, orders, stock_requests, pickVars, sess, failedAttempts,
                 manualCount, extVars>>

ConcCancelOrderRead(r, id) ==
  /\ reqs[r].pc = "idle"
  /\ id \in DOMAIN orders
  /\ Len(orders[id].status_history) < MaxHist
  /\ IF CancelRefused(orders[id].status)
       THEN /\ reqs' = [reqs EXCEPT ![r] =
                         QtyReq("refused", "cancel_order", Committed, Committed)]
            /\ lastOp' = OrderOp("cancel_order", FALSE, id, "", "concurrent")
       ELSE /\ reqs' = [reqs EXCEPT ![r] =
                         QtyReq("write_pending", "cancel_order", Committed,
                                cancel_order(Committed, id))]
            /\ UNCHANGED lastOp
  /\ UNCHANGED <<invVars, ordVars, stock_requests, pickVars, sess, failedAttempts,
                 manualCount, extVars>>

ConcAdjustInventoryRead(r, p, d) ==
  /\ reqs[r].pc = "idle"
  /\ p \in DOMAIN quantity
  /\ quantity[p] + d <= MaxQty
  /\ IF AdjustRefused(quantity[p], d)
       THEN /\ reqs' = [reqs EXCEPT ![r] =
                         QtyReq("refused", "adjust_inventory", Committed, Committed)]
            /\ lastOp' = OrderOp("adjust_inventory", FALSE, 0, "", "concurrent")
       ELSE /\ reqs' = [reqs EXCEPT ![r] =
                         QtyReq("write_pending", "adjust_inventory", Committed,
                                [Committed EXCEPT
                                   !.quantity[p] = quantity[p] + d,
                                   !.ledger = Append(@, LogEntry(p, d, "adjustment", 0,
                                                                 quantity[p] + d))])]
            /\ UNCHANGED lastOp
  /\ UNCHANGED <<invVars, ordVars, stock_requests, pickVars, sess, failedAttempts,
                 manualCount, extVars>>

\* update_order_status up to its commit, in the request's own session.
ConcUpdateOrderStatusRead(r, id, status) ==
  /\ reqs[r].pc = "idle"
  /\ id \in DOMAIN orders
  /\ Len(orders[id].status_history) < MaxHist
  /\ reqs' = [reqs EXCEPT ![r] =
               QtyReq("write_pending", "update_order_status", Committed,
                      [Committed EXCEPT !.orders[id] =
                         _add_status_history([@ EXCEPT !.status = status], status, "manual")])]
  /\ UNCHANGED <<invVars, ordVars, stock_requests, pickVars, sess, failedAttempts,
                 manualCount, extVars, lastOp>>

\* db.commit(): INSERT the new rows, UPDATE the changed ones.  An UPDATE of a
\* row that was deleted meanwhile matches no row: StaleDataError, the commit
\* fails and the transaction is rolled back.
ConcQtyCommit(r) ==
  /\ reqs[r].pc = "write_pending"
  /\ LET base == reqs[r].base
         W == reqs[r].W
         changed == {o \in DOMAIN W.orders :
                       o \notin DOMAIN base.orders \/ W.orders[o] # base.orders[o]}
         rows == {row \in DOMAIN W.quantity : W.quantity[row] # base.quantity[row]}
     IN IF ~(changed \cap DOMAIN base.orders \subseteq DOMAIN orders)
           \/ ~(rows \subseteq DOMAIN quantity)
          THEN /\ UNCHANGED <<quantity, ledger, orders>>
               /\ reqs' = [reqs EXCEPT ![r].pc = "refused"]
               /\ lastOp' = OrderOp(reqs[r].op, FALSE, 0, "", "concurrent")
          ELSE /\ Len(ledger) + Len(W.ledger) - Len(base.ledger) <= MaxLedger + 1
               /\ quantity' = [row \in DOMAIN quantity |->
                                 IF row \in rows THEN W.quantity[row] ELSE quantity[row]]
               /\ ledger' = ledger \o SubSeq(W.ledger, Len(base.ledger) + 1, Len(W.ledger))
               /\ orders' = [o \in DOMAIN orders \cup changed |->
                               IF o \in changed THEN W.orders[o] ELSE orders[o]]
               /\ reqs' = [reqs EXCEPT ![r].pc = "committed"]
               /\ lastOp' = OrderOp(reqs[r].op, TRUE, 0, "", "concurrent")
  /\ UNCHANGED <<orderSeq, stock_requests, pickVars, sess, failedAttempts, manualCount,
                 extVars>>

(* ------------------------------ main.py ------------------------------ *)
\* GET /api/v1/admin/clear-all-data: DELETE FROM every table.
ClearAllData ==
  /\ ~sess.open
  /\ quantity' = <<>>
  /\ ledger' = <<>>
  /\ orders' = <<>>
  /\ stock_requests' = <<>>
  /\ picking_lists' = <<>>
  /\ pick_items' = <<>>
  /\ lastOp' = OrderOp("clear_all_data", TRUE, 0, "", "")
  /\ UNCHANGED <<orderSeq, plSeq, now, auxVars, manualCount, extVars>>

(* ------------------------ buy_label, two at a time -------------------- *)
\* The order query with the guard (lines 140-144), the purchase at the carrier
\* (lines 150-161) and the writes with the commit (lines 163-179).
BuyReq(pc, id, order) == [pc |-> pc, id |-> id, order |-> order]

ConcBuyLabelRead(r, id) ==
  /\ reqs[r].pc = "idle"
  /\ id \in DOMAIN orders
  /\ IF LabelAlreadyPurchased(orders[id])
       THEN /\ reqs' = [reqs EXCEPT ![r] = BuyReq("label_refused", id, orders[id])]
            /\ lastOp' = OrderOp("buy_label", FALSE, id, "", "concurrent")
       ELSE /\ reqs' = [reqs EXCEPT ![r] = BuyReq("guard_passed", id, orders[id])]
            /\ UNCHANGED lastOp
  /\ UNCHANGED <<invVars, ordVars, stock_requests, pickVars, sess, failedAttempts,
                 manualCount, extVars>>

ConcBuyLabelPurchase(r) ==
  /\ reqs[r].pc = "guard_passed"
  /\ carrier' = [carrier EXCEPT ![reqs[r].id] = [purchases |-> @.purchases + 1,
                                                 unrefunded |-> TRUE]]
  /\ reqs' = [reqs EXCEPT ![r].pc = "bought"]
  /\ UNCHANGED <<invVars, ordVars, stock_requests, pickVars, sess, failedAttempts,
                 manualCount, rateCall, lastOp>>

ConcBuyLabelCommit(r) ==
  /\ reqs[r].pc = "bought"
  /\ LET id == reqs[r].id
     IN /\ orders' = [orders EXCEPT ![id] =
                        buy_label(reqs[r].order, id, id, TRUE,
                                  _find_rate(ShipmentRates, DEFAULT_CARRIER, DEFAULT_SERVICE))]
        /\ lastOp' = OrderOp("buy_label", TRUE, id, "", "concurrent")
  /\ reqs' = [reqs EXCEPT ![r].pc = "label_committed"]
  /\ UNCHANGED <<invVars, orderSeq, stock_requests, pickVars, sess, failedAttempts,
                 manualCount, extVars>>

(* --------------------------- specifications --------------------------- *)
OrderIds == 1..MaxOrders
OrderIdSets == SUBSET OrderIds \ {{}}
QrCodes == DOMAIN pick_items \cup {<<0, 0, 0, 0>>}
PickItemLists == {<<Line("p1", "", 1)>>, <<Line("p1", "", 2)>>}
HookItemLists == {<<Line("p1", "", 1)>>}
\* One status of each kind the inventory rules tell apart (active, shipped, cancelled).
InvManualStatuses == {"pending", "shipped", "cancelled"}
\* One status of each kind the picking rules tell apart: pending, batch-induced,
\* dropped off or later, and the rest.
PickManualStatuses == {"pending", "packed", "label_purchased", "drop_off", "shipped"}
AdjustProducts == {"p1"}

\* Orders and the inventory ledger.
NextInv ==
  \/ \E items \in ApiItemLists : CreateOrder(items)
  \/ \E id \in OrderIds : CancelOrder(id)
  \/ \E id \in OrderIds, status \in InvManualStatuses : UpdateOrderStatus(id, status)
  \/ \E p \in AdjustProducts, d \in Deltas : AdjustInventory(p, d)
  \/ \E v \in Variants, d \in Deltas : AdjustVariantInventory(v, d)
  \/ \E groups \in ImportGroupLists : ImportBegin(groups)
  \/ ImportCreateOrder
  \/ ImportEnd
  \/ \E sr \in SrIds, items \in SrItemLists : CreateStockRequest(sr, items)
  \/ \E sr \in SrIds : ApproveStockRequest(sr)
  \/ \E sr \in SrIds, recvs \in RecvLists : ReceiveItems(sr, recvs)

SpecInv == Init /\ [][NextInv]_vars

\* The order lifecycle: manual updates, label purchase and carrier events.
NextHook ==
  \/ \E items \in HookItemLists : orderSeq < MaxHookOrders /\ CreateOrder(items)
  \/ \E id \in OrderIds, status \in OrderStatus : UpdateOrderStatus(id, status)
  \/ \E id \in OrderIds, has_rates \in BOOLEAN, has_code \in BOOLEAN, has_label \in BOOLEAN :
       BuyLabel(id, has_rates, IF has_code THEN id ELSE 0, has_label)
  \/ \E code \in 0..MaxOrders, ts \in TrackingStatuses : EasypostWebhook(code, ts)
  \/ \E id \in OrderIds : RefundShipment(id)

SpecHook == Init /\ [][NextHook]_vars

\* The picking engine, one request at a time.
NextPick ==
  \/ \E items \in PickItemLists : CreateOrder(items)
  \/ \E id \in OrderIds : CancelOrder(id)
  \/ \E id \in OrderIds, status \in PickManualStatuses : UpdateOrderStatus(id, status)
  \/ \E ids \in OrderIdSets : CreatePickingList(ids)
  \/ \E qr \in QrCodes : ScanPickItem(qr)
  \/ \E pl \in 1..MaxBatches : DeletePickingList(pl)
  \/ \E pl \in 1..MaxBatches, id \in OrderIds : RemoveOrderFromPickingList(pl, id)
  \/ \E pl \in 1..MaxBatches : ArchivePickingList(pl)
  \/ \E pl \in 1..MaxBatches : GetPickingSummary(pl)

SpecPick == Init /\ [][NextPick]_vars

\* Two create_picking_list requests with their round trips interleaved.
NextConc ==
  \/ \E items \in PickItemLists : CreateOrder(items)
  \/ \E r \in Reqs, ids \in OrderIdSets : ConcQueryOrders(r, ids)
  \/ \E r \in Reqs : ConcQueryBatches(r)
  \/ \E r \in Reqs : ConcCommit(r)

SpecConc == Init /\ [][NextConc]_vars

\* Two scan_pick_item requests with their round trips interleaved.
NextScan ==
  \/ \E items \in PickItemLists : CreateOrder(items)
  \/ \E ids \in OrderIdSets : CreatePickingList(ids)
  \/ \E r \in Reqs, qr \in QrCodes : ConcScanQueryItem(r, qr)
  \/ \E r \in Reqs : ConcScanQueryProgress(r)
  \/ \E r \in Reqs : ConcScanCommit(r)

SpecScan == Init /\ [][NextScan]_vars

\* Two requests on the stock of product p1 with their round trips interleaved.
NextQty ==
  \/ \E items \in PickItemLists : CreateOrder(items)
  \/ \E r \in Reqs, items \in PickItemLists : ConcCreateOrderRead(r, items)
  \/ \E r \in Reqs, id \in OrderIds : ConcCancelOrderRead(r, id)
  \/ \E r \in Reqs, p \in AdjustProducts, d \in Deltas : ConcAdjustInventoryRead(r, p, d)
  \/ \E r \in Reqs : ConcQtyCommit(r)

SpecQty == Init /\ [][NextQty]_vars

\* Two buy_label requests with their round trips interleaved.
NextBuy ==
  \/ \E items \in PickItemLists : CreateOrder(items)
  \/ \E r \in Reqs, id \in OrderIds : ConcBuyLabelRead(r, id)
  \/ \E r \in Reqs : ConcBuyLabelPurchase(r)
  \/ \E r \in Reqs : ConcBuyLabelCommit(r)

SpecBuy == Init /\ [][NextBuy]_vars

\* _find_rate on every quote list and request within the bounds.
InitRate == InitBase /\ rateCall \in RateCalls

NextRate == FindRate

SpecRate == InitRate /\ [][NextRate]_vars

\* Orders on products and variants, their cancellation, and the catalog.
CancelItemLists ==
  {<<Line("p1", "", 1)>>, <<Line("p2", "v1", 1)>>, <<Line("p1", "", 1), Line("p2", "v1", 2)>>}

NextCancel ==
  \/ \E items \in CancelItemLists : CreateOrder(items)
  \/ \E id \in OrderIds, status \in InvManualStatuses : UpdateOrderStatus(id, status)
  \/ \E id \in OrderIds : CancelOrder(id)
  \/ \E v \in Variants : DeleteVariant(v)

SpecCancel == Init /\ [][NextCancel]_vars

\* The writers of the two journals: orders, their cancellation, status updates
\* in sessions of their own, stock adjustments, and the clearing of the database.
JournalStatuses == {"packed", "shipped"}

NextJournal ==
  \/ \E items \in HookItemLists : CreateOrder(items)
  \/ \E id \in OrderIds : CancelOrder(id)
  \/ \E p \in AdjustProducts, d \in Deltas : AdjustInventory(p, d)
  \/ \E r \in Reqs, id \in OrderIds, status \in JournalStatuses :
       ConcUpdateOrderStatusRead(r, id, status)
  \/ \E r \in Reqs : ConcQtyCommit(r)
  \/ ClearAllData

SpecJournal == Init /\ [][NextJournal]_vars

\* Batches of orders of no line (items: list[OrderItemCreate] may be empty),
\* of one and of two lines, scanned to completion.
BatchItemLists ==
  {<<Line("p1", "", 2), Line("p2", "v1", 1)>>, <<Line("p2", "v1", 1)>>, <<>>}
BatchManualStatuses == {"drop_off"}

NextBatch ==
  \/ \E items \in BatchItemLists : CreateOrder(items)
  \/ \E id \in OrderIds, status \in BatchManualStatuses : UpdateOrderStatus(id, status)
  \/ \E ids \in OrderIdSets : CreatePickingList(ids)
  \/ \E qr \in QrCodes : ScanPickItem(qr)
  \/ \E pl \in 1..MaxBatches : DeletePickingList(pl)
  \/ \E pl \in 1..MaxBatches, id \in OrderIds : RemoveOrderFromPickingList(pl, id)
  \/ \E pl \in 1..MaxBatches : ArchivePickingList(pl)
  \/ \E pl \in 1..MaxBatches : GetPickingSummary(pl)
  \/ \E pl \in 1..MaxBatches : GetPickingListProgress(pl)

SpecBatch == Init /\ [][NextBatch]_vars

\* Batches whose orders reach drop-off or later by hand and, for the first
\* MaxHookOrders orders, by carrier events.
NextDone ==
  \/ \E items \in HookItemLists : CreateOrder(items)
  \/ \E ids \in OrderIdSets : CreatePickingList(ids)
  \/ \E qr \in QrCodes : ScanPickItem(qr)
  \/ \E pl \in 1..MaxBatches : GetPickingSummary(pl)
  \/ \E id \in 1..MaxHookOrders : BuyLabel(id, TRUE, id, TRUE)
  \/ \E code \in 1..MaxHookOrders, ts \in TrackingStatuses : EasypostWebhook(code, ts)
  \/ \E id \in OrderIds, status \in BatchManualStatuses : UpdateOrderStatus(id, status)

SpecDone == Init /\ [][NextDone]_vars

\* Carrier webhook requests of every shape, on orders with and without a label.
NextWebhook ==
  \/ \E items \in HookItemLists : orderSeq < MaxHookOrders /\ CreateOrder(items)
  \/ \E id \in OrderIds, has_code \in BOOLEAN, has_label \in BOOLEAN :
       BuyLabel(id, TRUE, IF has_code THEN id ELSE 0, has_label)
  \/ \E body \in Bodies, code \in 0..MaxOrders, ts \in TrackingStatuses :
       EasypostRequest(body, code, ts)

SpecWebhook == Init /\ [][NextWebhook]_vars

\* Every request, one at a time.
Next ==
  \/ NextInv
  \/ NextPick
  \/ \E id \in OrderIds, status \in OrderStatus : UpdateOrderStatus(id, status)
  \/ \E id \in OrderIds, has_rates \in BOOLEAN, has_code \in BOOLEAN, has_label \in BOOLEAN :
       BuyLabel(id, has_rates, IF has_code THEN id ELSE 0, has_label)
  \/ \E code \in 0..MaxOrders, ts \in TrackingStatuses : EasypostWebhook(code, ts)
  \/ \E id \in OrderIds : RefundShipment(id)
  \/ \E v \in Variants : DeleteVariant(v)
  \/ ClearAllData
  \/ \E pl \in 1..MaxBatches : GetPickingListProgress(pl)
  \/ \E body \in Bodies, code \in 0..MaxOrders, ts \in TrackingStatuses :
       EasypostRequest(body, code, ts)

Spec == Init /\ [][Next]_vars
(* ------------------------------- claims ------------------------------- *)
\* Sum of the ledger changes that carry an order's id as reference_id.
LedgerSum(id) ==
  SumSeq([i \in 1..Len(ledger) |->
            IF ledger[i].reference_id = id THEN ledger[i].change ELSE 0], Len(ledger))

\* The units an order reserved: the sum of its lines' quantities.
ReservedUnits(id) ==
  SumSeq([i \in 1..Len(orders[id].items) |-> orders[id].items[i].quantity],
         Len(orders[id].items))

\* C1: the quantity of every product and of every variant is >= 0 in every
\* reachable state.
C1_QuantityNonNegative == \A r \in Rows : quantity[r] >= 0

\* C2: for every order, the ledger entries that reference it sum to 0 when the
\* order is cancelled and to minus its reserved units while it is in any status
\* that is neither cancelled nor shipped or later.
C2_LedgerNetsPerOrder ==
  \A id \in DOMAIN orders :
    IF orders[id].status = "cancelled"
      THEN LedgerSum(id) = 0
      ELSE orders[id].status \notin {"shipped", "in_transit", "delivered"}
             => LedgerSum(id) = -ReservedUnits(id)

\* C3: a create_order that failed leaves nothing in the committed state: no
\* order row (and so no order item) and no ledger entry of that attempt.  Every
\* quantity change of an attempt is written together with such a ledger entry.
C3_FailedCreateLeavesNothing ==
  \A id \in failedAttempts :
    /\ id \notin DOMAIN orders
    /\ \A i \in 1..Len(ledger) : ledger[i].reference_id # id

\* The lifecycle stages in order.
LifecycleRank ==
  [s \in OrderStatus \ {"cancelled"} |->
     CASE s = "pending" -> 0 [] s = "confirmed" -> 1 [] s = "processing" -> 2
       [] s = "packing" -> 3 [] s = "packed" -> 4 [] s = "label_purchased" -> 5
       [] s = "drop_off" -> 6 [] s = "shipped" -> 7 [] s = "in_transit" -> 8
       [] s = "delivered" -> 9]

WebhookStep == lastOp'.op = "easypost_webhook" /\ lastOp'.ok

\* C4: a carrier event never moves an order that is delivered or in_transit to
\* an earlier lifecycle stage.
C4_WebhookNeverRegresses ==
  [][WebhookStep =>
       LET pre == orders[lastOp'.order].status
           post == orders'[lastOp'.order].status
       IN (pre \in {"in_transit", "delivered"} /\ post # "cancelled")
            => LifecycleRank[post] >= LifecycleRank[pre]]_vars

\* C5: whenever a carrier event sets an order that has not reached shipped
\* (pending .. drop_off) to in_transit or delivered, the order's history holds a
\* shipped entry before the entry just appended.
C5_ShippedBeforeTarget ==
  [][WebhookStep =>
       LET id == lastOp'.order
           pre == orders[id].status
           post == orders'[id].status
           h == orders'[id].status_history
       IN (/\ pre \in {"pending", "processing", "packing", "packed", "label_purchased",
                       "drop_off"}
           /\ post \in {"in_transit", "delivered"})
            => \E i \in 1..(Len(h) - 1) : h[i].status = "shipped"]_vars

\* C6: a carrier event with target T (in_transit or delivered) on an order at
\* label_purchased or drop_off appends exactly two history entries, shipped then
\* T, and leaves the order at T.
C6_TwoEntriesShippedThenTarget ==
  [][WebhookStep =>
       LET id == lastOp'.order
           T == CASE lastOp'.arg \in {"in_transit", "out_for_delivery"} -> "in_transit"
                  [] lastOp'.arg = "delivered" -> "delivered"
                  [] OTHER -> ""
           h == orders[id].status_history
           h2 == orders'[id].status_history
       IN (orders[id].status \in {"label_purchased", "drop_off"} /\ T # "")
            => /\ orders'[id].status = T
               /\ Len(h2) = Len(h) + 2
               /\ SubSeq(h2, 1, Len(h)) = h
               /\ h2[Len(h) + 1].status = "shipped"
               /\ h2[Len(h) + 2].status = T]_vars

C6_Witness ==
  /\ lastOp.op = "easypost_webhook"
  /\ lastOp.ok
  /\ lastOp.arg = "delivered"
  /\ LET h == orders[lastOp.order].status_history
     IN /\ Len(h) >= 3
        /\ h[Len(h) - 2].status \in {"label_purchased", "drop_off"}
        /\ h[Len(h) - 1] = HistoryEntry("shipped", "First carrier scan from EasyPost")
        /\ h[Len(h)] = HistoryEntry("delivered", "EasyPost tracking")
        /\ orders[lastOp.order].status = "delivered"

\* C7: a scan of the qr_code of a PickItem that is already picked reports
\* success = false and changes no PickItem (so no picked_at), no batch and no
\* order.
C7_RescanChangesNothing ==
  [][(/\ lastOp'.op = "scan_pick_item"
      /\ lastOp'.qr \in DOMAIN pick_items
      /\ pick_items[lastOp'.qr].picked)
       => /\ ~lastOp'.ok
          /\ pick_items' = pick_items
          /\ picking_lists' = picking_lists
          /\ orders' = orders]_vars

C7_Witness ==
  /\ lastOp.op = "scan_pick_item"
  /\ ~lastOp.ok
  /\ lastOp.qr \in DOMAIN pick_items
  /\ pick_items[lastOp.qr].picked
  /\ pick_items[lastOp.qr].picked_at > 0

\* The batches in status active or processing that hold a PickItem of an order.
ActiveBatchesOf(o) ==
  {pl \in DOMAIN picking_lists :
     /\ picking_lists[pl].status \in {"active", "processing"}
     /\ \E k \in DOMAIN pick_items : k[1] = pl /\ k[2] = o}

\* C8: a CreateBatch request that names an order which is not pending, or which
\* has a PickItem in an active or processing batch, fails and creates no
\* PickingList, no PickItem and changes no order.
C8_FailedBatchCreatesNothing ==
  [][(/\ lastOp'.op = "create_picking_list"
      /\ \E o \in lastOp'.ids \cap DOMAIN orders :
            orders[o].status # "pending" \/ ActiveBatchesOf(o) # {})
       => /\ ~lastOp'.ok
          /\ picking_lists' = picking_lists
          /\ pick_items' = pick_items
          /\ orders' = orders]_vars

\* A request for two orders was refused: one is in an active batch, the other is
\* pending and in no batch, and it got no PickItem.
C8_Witness ==
  /\ lastOp.op = "create_picking_list"
  /\ ~lastOp.ok
  /\ \E o1 \in lastOp.ids, o2 \in lastOp.ids :
       /\ o1 # o2
       /\ {o1, o2} \subseteq DOMAIN orders
       /\ ActiveBatchesOf(o1) # {}
       /\ orders[o2].status = "pending"
       /\ \A k \in DOMAIN pick_items : k[2] # o2

\* C9: with the requests served one at a time, no order has PickItems in two
\* different batches that are both active or processing.
C9_OneActiveBatchPerOrder ==
  \A o \in DOMAIN orders : Cardinality(ActiveBatchesOf(o)) <= 1

\* Two batches are open at once and each of two orders has its PickItems in a
\* different one of them.
C9_Witness ==
  /\ \E o1 \in DOMAIN orders, o2 \in DOMAIN orders :
       /\ o1 # o2
       /\ ActiveBatchesOf(o1) # {}
       /\ ActiveBatchesOf(o2) # {}
       /\ ActiveBatchesOf(o1) # ActiveBatchesOf(o2)
  /\ plSeq >= 2

\* C10: of two concurrent CreateBatch requests that name a common pending order
\* at most one succeeds, and the order never has PickItems in two active batches.
C10_ConcurrentBatchesExclude ==
  /\ ~(/\ reqs[1].pc = "done"
       /\ reqs[2].pc = "done"
       /\ reqs[1].found \cap reqs[2].found # {})
  /\ \A o \in DOMAIN orders :
       \A pl1 \in ActiveBatchesOf(o), pl2 \in ActiveBatchesOf(o) : pl1 = pl2
\* The requests that scanned and committed.
ScansDone == {r \in Reqs : reqs[r].pc = "scan_done"}

\* C11: when two scans of two different unpicked units of one order interleave,
\* both succeed, both units end picked, and once no unit of the order is left
\* unpicked the order's status is packed.
C11_ConcurrentScansAggregate ==
  (/\ ScansDone = {1, 2}
   /\ reqs[1].qr # reqs[2].qr
   /\ ItemOrder(reqs[1].qr) = ItemOrder(reqs[2].qr))
    => /\ pick_items[reqs[1].qr].picked
       /\ pick_items[reqs[2].qr].picked
       /\ (\A k \in OrderItemsIn(pick_items, reqs[1].qr) : pick_items[k].picked)
            => orders[ItemOrder(reqs[1].qr)].status = "packed"

\* C12: of two concurrent scans of the same unpicked qr_code at most one
\* succeeds (and so writes picked_at); the other is told the item is picked.
C12_SameCodeScannedOnce ==
  ~(ScansDone = {1, 2} /\ reqs[1].qr = reqs[2].qr)

\* The sum of the changes the ledger holds for a product.
LedgerTotal(p) ==
  SumSeq([i \in 1..Len(ledger) |->
            IF ledger[i].product_id = p THEN ledger[i].change ELSE 0], Len(ledger))

\* C13: with concurrent requests on the same row no update is lost: the quantity
\* of p1 is its initial stock plus the deltas of the requests that succeeded,
\* which are the changes in the ledger; and the orders never reserve more than
\* was in stock, so that sum is never negative.
C13_NoLostUpdate ==
  /\ quantity["p1"] = LedgerTotal("p1")
  /\ LedgerTotal("p1") >= 0

\* C14: once a BuyLabel has bought a shipment for an order and no refund came
\* since, a later BuyLabel on the order fails, buys nothing and leaves the order
\* unchanged, whatever the purchase response held.
C14_SecondBuyLabelRefused ==
  [][(lastOp'.op = "buy_label" /\ carrier[lastOp'.order].unrefunded)
       => /\ ~lastOp'.ok
          /\ carrier' = carrier
          /\ orders' = orders]_vars

\* C15: two concurrent BuyLabel requests for one order make at most one
\* purchase at the carrier.
C15_OnePurchasePerOrder == \A o \in DOMAIN carrier : carrier[o].purchases <= 1

\* C16: after a successful BuyLabel and a successful RefundShipment the
\* shipping cost is 0, the total is the item subtotal plus the processing fee,
\* and label_url, tracking_number, tracking_url and tracking_status are empty.
C16_RefundRestoresTotal ==
  [][(lastOp'.op = "refund_shipment" /\ lastOp'.ok /\ carrier[lastOp'.order].purchases > 0)
       => LET o == orders'[lastOp'.order]
          IN /\ o.shipping_cost = 0
             /\ o.total_price =
                  SumSeq([i \in 1..Len(o.items) |-> o.items[i].quantity * o.items[i].unit_price],
                         Len(o.items)) + o.processing_fee
             /\ o.label_url = ""
             /\ o.tracking_number = 0
             /\ o.tracking_url = ""
             /\ o.tracking_status = ""]_vars

\* A refund has just gone through on an order whose label had been bought with
\* a shipping cost and whose carrier events had set a tracking status.
C16_Witness ==
  /\ lastOp.op = "refund_shipment"
  /\ lastOp.ok
  /\ carrier[lastOp.order].purchases = 1
  /\ ~carrier[lastOp.order].unrefunded
  /\ orders[lastOp.order].shipping_cost = 0
  /\ orders[lastOp.order].total_price > orders[lastOp.order].processing_fee
  /\ \E i \in 1..Len(orders[lastOp.order].status_history) :
       orders[lastOp.order].status_history[i].status = "in_transit"

\* C17: for every order, total_price = sum of quantity * unit_price over its
\* items + processing_fee + shipping_cost, in every reachable state.
C17_TotalIsSumOfParts ==
  \A id \in DOMAIN orders :
    LET o == orders[id]
    IN o.total_price =
         SumSeq([i \in 1..Len(o.items) |-> o.items[i].quantity * o.items[i].unit_price],
                Len(o.items)) + o.processing_fee + o.shipping_cost

\* The tiers of the fallback policy, for a quote q and the request (c, sv).
TierMatch(k, q, c, sv) ==
  CASE k = 1 -> q.carrier = c /\ q.service = sv
    [] k = 2 -> lower(q.carrier) = lower(c) /\ lower(q.service) = lower(sv)
    [] k = 3 -> /\ lower(q.carrier) = lower(c)
                /\ (Contains(lower(sv), lower(q.service)) \/ Contains(lower(q.service), lower(sv)))
    [] k = 4 -> lower(q.carrier) = lower(c)
    [] k = 5 -> TRUE

\* C18: for a non-empty list _find_rate returns a member chosen by the
\* lowest-numbered tier that has a match: the first match in list order for
\* tiers 1 to 3, a cheapest match for tiers 4 and 5; it returns no quote only
\* for the empty list.
C18_FindRateFollowsTiers ==
  rateCall.called =>
    LET rates == rateCall.rates
        c == rateCall.carrier
        sv == rateCall.service
        res == rateCall.result
        Has(k) == \E i \in 1..Len(rates) : TierMatch(k, rates[i], c, sv)
        tier == CHOOSE k \in 1..5 : Has(k) /\ \A j \in 1..(k - 1) : ~Has(j)
    IN IF rates = <<>> THEN res = None
       ELSE /\ res # None
            /\ \E i \in 1..Len(rates) :
                 /\ rates[i] = res
                 /\ TierMatch(tier, rates[i], c, sv)
                 /\ IF tier <= 3
                      THEN \A j \in 1..(i - 1) : ~TierMatch(tier, rates[j], c, sv)
                      ELSE \A j \in 1..Len(rates) :
                             TierMatch(tier, rates[j], c, sv)
                               => float(rates[i].rate) <= float(rates[j].rate)

\* An exact match was returned although the list holds a cheaper quote.
C18_Witness ==
  /\ rateCall.called
  /\ rateCall.result # None
  /\ rateCall.result.carrier = rateCall.carrier
  /\ rateCall.result.service = rateCall.service
  /\ \E i \in 1..Len(rateCall.rates) :
       float(rateCall.rates[i].rate) < float(rateCall.result.rate)

\* The units of an order's lines that were reserved from a row.
UnitsOn(id, row) ==
  SumSeq([i \in 1..Len(orders[id].items) |->
            IF (IF orders[id].items[i].variant_id # "" THEN orders[id].items[i].variant_id
                ELSE orders[id].items[i].product_id) = row
              THEN orders[id].items[i].quantity ELSE 0],
         Len(orders[id].items))

\* C19: cancel_order on a shipped, in_transit or delivered order fails and
\* changes no order, quantity or ledger entry.  On any other order it adds each
\* line's quantity back to the row it was reserved from, writes one
\* order_cancelled ledger entry per line, sets the status to cancelled and
\* appends one history entry.
C19_CancelRestoresEveryLine ==
  [][lastOp'.op = "cancel_order" =>
       LET id == lastOp'.order
           o == orders[id]
           n == Len(o.items)
       IN IF o.status \in {"shipped", "in_transit", "delivered"}
            THEN ~lastOp'.ok /\ orders' = orders /\ quantity' = quantity /\ ledger' = ledger
            ELSE /\ lastOp'.ok
                 /\ Len(ledger') = Len(ledger) + n
                 /\ SubSeq(ledger', 1, Len(ledger)) = ledger
                 /\ \A i \in 1..n :
                      /\ ledger'[Len(ledger) + i].reason = "order_cancelled"
                      /\ ledger'[Len(ledger) + i].change = o.items[i].quantity
                      /\ ledger'[Len(ledger) + i].reference_id = id
                      /\ ledger'[Len(ledger) + i].product_id = o.items[i].product_id
                 /\ DOMAIN quantity' = DOMAIN quantity
                 /\ \A row \in DOMAIN quantity :
                      quantity'[row] = quantity[row] + UnitsOn(id, row)
                 /\ orders'[id].status = "cancelled"
                 /\ Len(orders'[id].status_history) = Len(o.status_history) + 1
                 /\ orders'[id].status_history[Len(o.status_history) + 1].status = "cancelled"]_vars

\* C20: cancelled is terminal: no request other than the manual status update
\* changes the status of a cancelled order.
C20_CancelledIsTerminal ==
  [][\A id \in DOMAIN orders :
       (orders[id].status = "cancelled" /\ lastOp'.op # "update_order_status")
         => orders'[id].status = "cancelled"]_vars

\* C21: a scan never changes the status of an order that is at label_purchased,
\* drop_off, shipped, in_transit or delivered, and buy_label never changes the
\* status of an order that is at drop_off, shipped, in_transit or delivered.
C21_ScanAndBuyLabelNeverRegress ==
  [][\A id \in DOMAIN orders :
       (\/ /\ lastOp'.op = "scan_pick_item"
           /\ orders[id].status \in
                {"label_purchased", "drop_off", "shipped", "in_transit", "delivered"}
        \/ /\ lastOp'.op = "buy_label"
           /\ orders[id].status \in {"drop_off", "shipped", "in_transit", "delivered"})
         => orders'[id].status = orders[id].status]_vars

\* C22: both journals are append-only: every step leaves each order present
\* with its previous status_history as a prefix of the new one, and leaves the
\* previous ledger as a prefix of the new ledger.
C22_JournalsAppendOnly ==
  [][/\ \A id \in DOMAIN orders :
          /\ id \in DOMAIN orders'
          /\ Len(orders'[id].status_history) >= Len(orders[id].status_history)
          /\ SubSeq(orders'[id].status_history, 1, Len(orders[id].status_history))
               = orders[id].status_history
     /\ Len(ledger') >= Len(ledger)
     /\ SubSeq(ledger', 1, Len(ledger)) = ledger]_vars

\* The ways of attributing every ledger entry to one row: the product the entry
\* names or one of that product's variants (an entry names no variant).
Attributions ==
  {f \in [1..Len(ledger) -> Rows] :
     \A i \in 1..Len(ledger) :
       \/ f[i] = ledger[i].product_id
       \/ f[i] \in Variants /\ VariantProduct[f[i]] = ledger[i].product_id}

\* C23: every quantity change is recorded by exactly one ledger entry: the
\* ledger entries can be attributed to the rows so that the quantity of every
\* product and of every variant is the sum of the changes recorded for it.
C23_QuantityIsSumOfLedger ==
  \E f \in Attributions :
    \A row \in DOMAIN quantity :
      quantity[row] =
        SumSeq([i \in 1..Len(ledger) |-> IF f[i] = row THEN ledger[i].change ELSE 0],
               Len(ledger))

\* C24: adjust_inventory and adjust_variant_inventory with delta d on a row of
\* quantity q: if q + d < 0 the call fails and changes neither the quantities
\* nor the ledger; otherwise the row's quantity becomes q + d, no other quantity
\* changes, and exactly one ledger entry with change d and balance_after q + d
\* is appended.
C24_AdjustChecksAndRecords ==
  [][lastOp'.op = "adjust_inventory" =>
       LET row == lastOp'.arg
           d == lastOp'.delta
           q == quantity[row]
       IN IF q + d < 0
            THEN ~lastOp'.ok /\ quantity' = quantity /\ ledger' = ledger
            ELSE /\ lastOp'.ok
                 /\ quantity' = [quantity EXCEPT ![row] = q + d]
                 /\ Len(ledger') = Len(ledger) + 1
                 /\ SubSeq(ledger', 1, Len(ledger)) = ledger
                 /\ ledger'[Len(ledger')].change = d
                 /\ ledger'[Len(ledger')].balance_after = q + d]_vars

\* A removal from an empty row has just been refused, after removals that
\* emptied it were accepted.
C24_Witness ==
  /\ lastOp.op = "adjust_inventory"
  /\ ~lastOp.ok
  /\ lastOp.delta = -1
  /\ quantity[lastOp.arg] = 0
  /\ \E i \in 1..Len(ledger) : ledger[i].reason = "adjustment" /\ ledger[i].balance_after = 0

\* C25: a successful create_picking_list creates a batch in status active and,
\* for every line of every included order, one unpicked PickItem for each
\* sequence number 1..quantity and no other; it sets every included order to
\* processing, creates no PickItem for any other order and changes no existing
\* PickItem.
C25_BatchExpandsEveryUnit ==
  [][(lastOp'.op = "create_picking_list" /\ lastOp'.ok) =>
       LET pl == lastOp'.pl
           found == lastOp'.ids \cap DOMAIN orders
           created == DOMAIN pick_items' \ DOMAIN pick_items
       IN /\ pl \notin DOMAIN picking_lists
          /\ pl \in DOMAIN picking_lists'
          /\ picking_lists'[pl].status = "active"
          /\ \A o \in found :
               /\ orders'[o].status = "processing"
               /\ \A i \in 1..Len(orders[o].items) :
                    /\ {k[4] : k \in {x \in created : x[1] = pl /\ x[2] = o /\ x[3] = i}}
                         = 1..orders[o].items[i].quantity
                    /\ Cardinality({x \in created : x[1] = pl /\ x[2] = o /\ x[3] = i})
                         = orders[o].items[i].quantity
          /\ \A k \in created :
               /\ k[1] = pl /\ k[2] \in found /\ k[3] \in 1..Len(orders[k[2]].items)
               /\ ~pick_items'[k].picked
          /\ \A k \in DOMAIN pick_items :
               k \in DOMAIN pick_items' /\ pick_items'[k] = pick_items[k]]_vars

\* A batch of two orders has just been created: the order of two lines (2 units
\* and 1 unit) got three PickItems and the order of one unit got one.
C25_Witness ==
  /\ lastOp.op = "create_picking_list"
  /\ lastOp.ok
  /\ Cardinality(lastOp.ids \cap DOMAIN orders) = 2
  /\ \E o \in lastOp.ids \cap DOMAIN orders :
       /\ Len(orders[o].items) = 2
       /\ Cardinality({k \in DOMAIN pick_items : k[1] = lastOp.pl /\ k[2] = o}) = 3
  /\ Cardinality({k \in DOMAIN pick_items : k[1] = lastOp.pl}) = 4

\* C26: every carrier webhook request is answered with a non-error response
\* (status 200), and a request that cannot be processed changes no order.
C26_WebhookAlwaysAcknowledged ==
  [][lastOp'.op = "easypost_request" =>
       /\ lastOp'.http = 200
       /\ ~lastOp'.ok => orders' = orders]_vars

\* C27: after a successful scan of a unit of an order that was at processing or
\* packing, the order is at packed if every PickItem of the order in the batch
\* is picked and at packing otherwise; order_picked and order_total are the
\* picked and total counts of those PickItems, and order_complete is true
\* exactly when the two are equal.
C27_ScanReportsProgress ==
  [][(/\ lastOp'.op = "scan_pick_item"
      /\ lastOp'.ok
      /\ lastOp'.order \in DOMAIN orders
      /\ orders[lastOp'.order].status \in {"processing", "packing"}) =>
       LET o == lastOp'.order
           mine == {k \in DOMAIN pick_items' : k[1] = lastOp'.qr[1] /\ k[2] = o}
           done == {k \in mine : pick_items'[k].picked}
       IN /\ orders'[o].status = IF done = mine THEN "packed" ELSE "packing"
          /\ lastOp'.order_picked = Cardinality(done)
          /\ lastOp'.order_total = Cardinality(mine)
          /\ lastOp'.order_complete <=> (Cardinality(done) = Cardinality(mine))]_vars

\* The third scan of an order of two lines (2 units and 1 unit) has just
\* completed it: 3 of 3 picked, the order at packed.
C27_Witness ==
  /\ lastOp.op = "scan_pick_item"
  /\ lastOp.ok
  /\ lastOp.order_picked = 3
  /\ lastOp.order_total = 3
  /\ lastOp.order_complete
  /\ Len(orders[lastOp.order].items) = 2
  /\ orders[lastOp.order].status = "packed"

\* The order of the statuses of a picking list.
BatchRank == [active |-> 1, processing |-> 2, done |-> 3, archived |-> 4]

BatchStarted(pl) ==
  /\ pl \in DOMAIN picking_lists /\ pl \in DOMAIN picking_lists'
  /\ picking_lists[pl].status = "active"
  /\ picking_lists'[pl].status = "processing"

StartedByScan(pl) == lastOp'.op = "scan_pick_item" /\ lastOp'.ok /\ lastOp'.qr[1] = pl

\* C29: a batch goes from active to processing only in a successful scan of one
\* of its PickItems; Progress and the batch summary change no batch's status,
\* no PickItem and no order.
C29_OnlyScanStartsBatch ==
  [][/\ \A pl \in DOMAIN picking_lists : BatchStarted(pl) => StartedByScan(pl)
     /\ lastOp'.op \in {"get_picking_list_progress", "get_picking_summary"}
          => UNCHANGED <<picking_lists, pick_items, orders>>]_vars

\* C29 as amended: a batch goes from active to processing only in a successful
\* scan of one of its PickItems or in a view of its own summary; Progress
\* changes no batch's status, no PickItem and no order; the summary changes no
\* PickItem, no order and no batch other than the viewed one, whose status it
\* changes only from active to processing.
C29_ScanOrSummaryStartsBatch ==
  [][/\ \A pl \in DOMAIN picking_lists :
          BatchStarted(pl)
            => StartedByScan(pl) \/ (lastOp'.op = "get_picking_summary" /\ lastOp'.pl = pl)
     /\ lastOp'.op = "get_picking_list_progress"
          => UNCHANGED <<picking_lists, pick_items, orders>>
     /\ lastOp'.op = "get_picking_summary"
          => /\ UNCHANGED <<pick_items, orders>>
             /\ DOMAIN picking_lists' = DOMAIN picking_lists
             /\ \A pl \in DOMAIN picking_lists :
                  \/ picking_lists'[pl] = picking_lists[pl]
                  \/ pl = lastOp'.pl /\ BatchStarted(pl)]_vars

\* The summary of an active batch has just been viewed: the batch is at
\* processing although none of its PickItems is picked.
C29_Witness ==
  /\ lastOp.op = "get_picking_summary"
  /\ picking_lists[lastOp.pl].status = "processing"
  /\ \E k \in DOMAIN pick_items : k[1] = lastOp.pl
  /\ \A k \in DOMAIN pick_items : k[1] = lastOp.pl => ~pick_items[k].picked

\* C30: delete_picking_list and remove_order_from_picking_list on a batch at
\* processing, done or archived fail and change no picking list, no PickItem
\* and no order.
C30_StartedBatchIsFrozen ==
  [][(/\ lastOp'.op \in {"delete_picking_list", "remove_order_from_picking_list"}
      /\ lastOp'.pl \in DOMAIN picking_lists
      /\ picking_lists[lastOp'.pl].status \in {"processing", "done", "archived"})
       => /\ ~lastOp'.ok
          /\ UNCHANGED <<picking_lists, pick_items, orders>>]_vars

\* The removal of an order from a done batch that holds its PickItems has just
\* been refused.
C30_Witness ==
  /\ lastOp.op = "remove_order_from_picking_list"
  /\ ~lastOp.ok
  /\ lastOp.pl \in DOMAIN picking_lists
  /\ picking_lists[lastOp.pl].status = "done"
  /\ \E k \in DOMAIN pick_items : k[1] = lastOp.pl /\ k[2] = lastOp.order

\* C31: a successful delete_picking_list removes the picking list and all its
\* PickItems, sets to pending exactly the member orders at processing, packing
\* or packed, leaves every other order's status as it was, and changes no
\* quantity and no ledger entry.
C31_DeleteBatchFrame ==
  [][(lastOp'.op = "delete_picking_list" /\ lastOp'.ok)
       => LET pl == lastOp'.pl
              members == {k[2] : k \in {x \in DOMAIN pick_items : x[1] = pl}}
          IN /\ pl \in DOMAIN picking_lists
             /\ pl \notin DOMAIN picking_lists'
             /\ \A k \in DOMAIN pick_items' : k[1] # pl
             /\ DOMAIN orders' = DOMAIN orders
             /\ \A o \in DOMAIN orders :
                  orders'[o].status =
                    IF o \in members
                       /\ orders[o].status \in {"processing", "packing", "packed"}
                      THEN "pending" ELSE orders[o].status
             /\ UNCHANGED <<quantity, ledger>>]_vars

\* A batch of two orders has just been deleted: one member went back to
\* pending, the other, already dropped off, kept its status.
C31_Witness ==
  /\ lastOp.op = "delete_picking_list"
  /\ lastOp.ok
  /\ \E o1, o2 \in lastOp.ids \cap DOMAIN orders :
       orders[o1].status = "pending" /\ orders[o2].status = "drop_off"

\* C32: a successful remove_order_from_picking_list deletes exactly the
\* PickItems of that order in that picking list, leaves every other PickItem
\* and every other order's status as it was, deletes the picking list if and
\* only if none of its PickItems remains, and reports picking_list_deleted
\* exactly in that case.
C32_RemoveOrderFrame ==
  [][(lastOp'.op = "remove_order_from_picking_list" /\ lastOp'.ok)
       => LET pl == lastOp'.pl
              mine == {k \in DOMAIN pick_items : k[1] = pl /\ k[2] = lastOp'.order}
              emptied == \A k \in DOMAIN pick_items' : k[1] # pl
          IN /\ mine # {}
             /\ DOMAIN pick_items' = DOMAIN pick_items \ mine
             /\ \A k \in DOMAIN pick_items' : pick_items'[k] = pick_items[k]
             /\ DOMAIN orders' = DOMAIN orders
             /\ \A o \in DOMAIN orders \ {lastOp'.order} :
                  orders'[o].status = orders[o].status
             /\ (pl \notin DOMAIN picking_lists') <=> emptied
             /\ (lastOp'.arg = "picking_list_deleted") <=> emptied
             /\ \A l \in DOMAIN picking_lists \ {pl} :
                  l \in DOMAIN picking_lists' /\ picking_lists'[l] = picking_lists[l]]_vars

\* The last order left in a batch has just been removed from it: the batch
\* went with it, and both orders are back at pending.
C32_Witness ==
  /\ lastOp.op = "remove_order_from_picking_list"
  /\ lastOp.ok
  /\ lastOp.arg = "picking_list_deleted"
  /\ lastOp.pl \notin DOMAIN picking_lists
  /\ \A o \in DOMAIN orders : orders[o].status = "pending"
  /\ Cardinality(DOMAIN orders) = 2

\* C33: an archive request sets the picking list's status to archived exactly
\* when the list is not archived already and either has no PickItem or is
\* done; otherwise it fails and the picking list stays as it was.
C33_ArchiveOnlyEmptyOrDone ==
  [][lastOp'.op = "archive_picking_list"
       => LET pl == lastOp'.pl
              allowed == /\ picking_lists[pl].status # "archived"
                         /\ \/ \A k \in DOMAIN pick_items : k[1] # pl
                            \/ picking_lists[pl].status = "done"
          IN /\ pl \in DOMAIN picking_lists /\ pl \in DOMAIN picking_lists'
             /\ lastOp'.ok <=> allowed
             /\ allowed => picking_lists'[pl].status = "archived"
             /\ ~allowed => picking_lists'[pl] = picking_lists[pl]]_vars

\* A batch made of an order without lines, so without PickItems, has just
\* been archived although it never was done.
C33_Witness ==
  /\ lastOp.op = "archive_picking_list"
  /\ lastOp.ok
  /\ picking_lists[lastOp.pl].status = "archived"
  /\ \A k \in DOMAIN pick_items : k[1] # lastOp.pl

\* C34: when a picking list's status becomes done, it was processing just
\* before, and every order with a PickItem in it is then at drop_off, shipped,
\* in_transit or delivered.
C34_DoneOnlyFromProcessing ==
  [][\A pl \in DOMAIN picking_lists' :
       (/\ picking_lists'[pl].status = "done"
        /\ ~(pl \in DOMAIN picking_lists /\ picking_lists[pl].status = "done"))
         => /\ pl \in DOMAIN picking_lists
            /\ picking_lists[pl].status = "processing"
            /\ \A k \in DOMAIN pick_items' :
                 k[1] = pl => /\ k[2] \in DOMAIN orders'
                              /\ orders'[k[2]].status \in
                                   {"drop_off", "shipped", "in_transit", "delivered"}]_vars

\* A batch of two orders is done: one of them was dropped off by hand, the
\* other was delivered according to the carrier.
C34_Witness ==
  \E pl \in DOMAIN picking_lists :
    /\ picking_lists[pl].status = "done"
    /\ \E k1, k2 \in DOMAIN pick_items :
         /\ k1[1] = pl /\ k2[1] = pl
         /\ orders[k1[2]].status = "drop_off"
         /\ orders[k2[2]].status = "delivered"

\* C35: when a manual update sets an order to drop_off, the order has a
\* PickItem in a processing picking list and every other order of that list is
\* at drop_off, shipped, in_transit or delivered, the list is done after the
\* request.
C35_LastDropOffCompletesBatch ==
  [][(lastOp'.op = "update_order_status" /\ lastOp'.ok /\ lastOp'.arg = "drop_off")
       => \A pl \in DOMAIN picking_lists :
            (/\ picking_lists[pl].status = "processing"
             /\ \E k \in DOMAIN pick_items : k[1] = pl /\ k[2] = lastOp'.order
             /\ \A k \in DOMAIN pick_items :
                  (k[1] = pl /\ k[2] # lastOp'.order)
                    => /\ k[2] \in DOMAIN orders
                       /\ orders[k[2]].status \in
                            {"drop_off", "shipped", "in_transit", "delivered"})
              => pl \in DOMAIN picking_lists' /\ picking_lists'[pl].status = "done"]_vars

\* The second order of a batch has just been dropped off by hand while the
\* first was in transit: the batch is done.
C35_Witness ==
  /\ lastOp.op = "update_order_status"
  /\ lastOp.arg = "drop_off"
  /\ \E k1, k2 \in DOMAIN pick_items :
       /\ k1[1] = k2[1]
       /\ k1[2] = lastOp.order
       /\ k2[2] # lastOp.order
       /\ orders[k2[2]].status = "in_transit"
       /\ picking_lists[k1[1]].status = "done"

\* C36: a carrier event delivered a second time right after its first delivery
\* changes neither the order's status, nor its status_history, nor its
\* tracking status, and sends no outbound notification.
C36_RepeatedEventIsIdempotent ==
  [][(/\ lastOp.op = "easypost_webhook" /\ lastOp.ok
      /\ lastOp'.op = "easypost_webhook" /\ lastOp'.ok
      /\ lastOp'.order = lastOp.order
      /\ lastOp'.arg = lastOp.arg)
       => /\ orders'[lastOp.order].status = orders[lastOp.order].status
          /\ orders'[lastOp.order].status_history = orders[lastOp.order].status_history
          /\ orders'[lastOp.order].tracking_status = orders[lastOp.order].tracking_status
          /\ ~lastOp'.notified]_vars

\* A delivered event has just been received on an order that is delivered
\* already and carries that tracking status: nothing was notified.  The
\* history holds the entries of the first delivery only.
C36_Witness ==
  /\ lastOp.op = "easypost_webhook"
  /\ lastOp.ok
  /\ lastOp.arg = "delivered"
  /\ ~lastOp.notified
  /\ orders[lastOp.order].status = "delivered"
  /\ Len(orders[lastOp.order].status_history) = 4

\* C37: with requests run one at a time, an active picking list never has a
\* picked PickItem, and the PickItems that a successful delete_picking_list or
\* remove_order_from_picking_list deletes are all unpicked.
C37_ActiveBatchHasNoPick ==
  /\ [](\A k \in DOMAIN pick_items :
          (k[1] \in DOMAIN picking_lists /\ picking_lists[k[1]].status = "active")
            => ~pick_items[k].picked)
  /\ [][(/\ lastOp'.op \in {"delete_picking_list", "remove_order_from_picking_list"}
         /\ lastOp'.ok)
          => \A k \in DOMAIN pick_items \ DOMAIN pick_items' : ~pick_items[k].picked]_vars

\* An active batch has just been deleted while another batch, already being
\* picked, keeps its recorded pick.
C37_Witness ==
  /\ lastOp.op = "delete_picking_list"
  /\ lastOp.ok
  /\ \E k \in DOMAIN pick_items :
       pick_items[k].picked /\ picking_lists[k[1]].status = "processing"

\* C38: in every reachable state each order's status is the status of the last
\* entry of its status_history.
C38_StatusIsLastHistoryEntry ==
  \A o \in DOMAIN orders :
    /\ orders[o].status_history # <<>>
    /\ orders[o].status = orders[o].status_history[Len(orders[o].status_history)].status

\* C39: after a successful cancel_order no PickItem of the cancelled order is
\* left in an active or processing picking list.
C39_CancelLeavesNoPickItem ==
  [][(lastOp'.op = "cancel_order" /\ lastOp'.ok)
       => \A k \in DOMAIN pick_items' :
            k[2] = lastOp'.order
              => picking_lists'[k[1]].status \notin {"active", "processing"}]_vars

\* The stock added on behalf of item i of stock request sr: the sum of the
\* stock_request ledger entries that refer to sr and carry the item's product.
ReceivedInLedger(sr, i) ==
  SumSeq([n \in 1..Len(ledger) |->
            IF /\ ledger[n].reason = "stock_request"
               /\ ledger[n].reference_id = sr
               /\ ledger[n].product_id = stock_requests[sr].items[i].product_id
              THEN ledger[n].change ELSE 0], Len(ledger))

\* C40: for every stock-request item the stock added on its behalf equals its
\* recorded quantity_received, whatever receive_items calls were made; and
\* receive_items adds stock only to a request that is approved or receiving.
C40_ReceivedMatchesLedger ==
  /\ [](\A sr \in DOMAIN stock_requests :
          \A i \in 1..Len(stock_requests[sr].items) :
            ReceivedInLedger(sr, i) = stock_requests[sr].items[i].quantity_received)
  /\ [][(lastOp'.op = "receive_items" /\ <<quantity, ledger>>' # <<quantity, ledger>>)
          => \A sr \in lastOp'.ids :
               /\ sr \in DOMAIN stock_requests
               /\ stock_requests[sr].status \in {"approved", "receiving"}]_vars

====
